---- MODULE Spec2Model ----
(***************************************************************************)
(* The Triplit adapter for Better-Auth as a state machine.                 *)
(*                                                                         *)
(* The repository holds several copies of the two collaborating pieces:    *)
(*   createTransform  T1 = src/src/transform.ts (lines 12-336)             *)
(*                    T2 = src/unnamed/part_001                            *)
(*   triplitAdapter   A1 = src/unnamed/part_002                            *)
(*                    A2 = src/src/adapter.ts                              *)
(*                    A3 = src/src/transform.ts (lines 349-618)            *)
(* Every adapter copy imports createTransform from "./transform", so a     *)
(* build links one adapter copy with one transform copy; Init picks the    *)
(* pair.  The Triplit client is the store: collections of records, read    *)
(* by query and mutated by id.                                             *)
(***************************************************************************)
EXTENDS Integers, Sequences, FiniteSets, TLC

VARIABLES
  adapter,     \* which copy of triplitAdapter is linked: A1, A2 or A3
  transform,   \* which copy of createTransform is linked: T1 or T2
  config,      \* TriplitAdapterOptions, fixed at construction
  store,       \* the Triplit database: collections and the id counter
  now,         \* the reading of the clock (what new Date() returns)
  pc,          \* "idle", or "done" when a verb call has settled
  call,        \* the arguments of the settled verb call
  calls,       \* the client calls that verb call issued, in order
  result,      \* what the verb call resolved or rejected with
  pre,         \* the store as it was when the verb call started
  issued,      \* how many client calls were issued when the promise settled
  inflight,    \* the client calls still running when the promise settled
  procs        \* the verb calls of concurrent callers, each with its position

vars ==
  <<adapter, transform, config, store, now, pc, call, calls, result, pre,
    issued, inflight, procs>>

----------------------------------------------------------------------------
(* Bounds of the model *)

\* the number of ids the store hands out
MaxRecords == 2
\* the last reading of the clock
MaxClock == 2

----------------------------------------------------------------------------
(* Values *)

A1 == "part_002"
A2 == "adapter.ts"
A3 == "transform.ts:adapter"
T1 == "transform.ts"
T2 == "part_001"

Adapters == {A1, A2, A3}
Transforms == {T1, T2}

\* JavaScript values, tagged by type
Null == [t |-> "null"]
Undef == [t |-> "undef"]
Num(n) == [t |-> "num", n |-> n]
Bool(b) == [t |-> "bool", b |-> b]
\* an object: its keys with a value, and its keys that hold undefined
Rec(r) == [t |-> "rec", r |-> r, undef |-> {}]
List(l) == [t |-> "list", l |-> l]
\* an Error: `at` is the number of the client call that rejected with it,
\* 0 for an error the adapter's own code throws
Err(name, op) == [t |-> "err", name |-> name, op |-> op, at |-> 0]

\* JavaScript truthiness of a tagged value
Truthy(v) ==
  CASE v.t = "null" -> FALSE
    [] v.t = "undef" -> FALSE
    [] v.t = "num" -> v.n # 0
    [] v.t = "bool" -> v.b
    [] OTHER -> TRUE

\* an omitted property of a condition reads as undefined
Undefined == "undefined"

\* a timestamp: a Date object, or the raw number a caller or the store holds
Date(ms) == [ms |-> ms, isDate |-> TRUE]
Raw(ms) == [ms |-> ms, isDate |-> FALSE]

EmptyRec == [f \in {} |-> Null]

Has(r, f) == f \in DOMAIN r

\* { ...r, ...patch }
Merge(r, patch) ==
  [f \in (DOMAIN r) \cup (DOMAIN patch) |->
     IF f \in DOMAIN patch THEN patch[f] ELSE r[f]]

----------------------------------------------------------------------------
(* The store: the Triplit client the adapter is given *)

Models == {"user"}
\* customCollectionName as the README configures it: a prefix on the name
CustomName(tableName) == "auth_" \o tableName
Colls == Models \cup {CustomName(m) : m \in Models}

\* the order of the strings, and which string holds which
Rank(s) == IF s = "a" THEN 1 ELSE 2
Contains(s, sub) == s = sub \/ (s = "ab" /\ sub = "a")

\* the operators Triplit's Where accepts
StoreOperators ==
  {"=", "!=", ">", ">=", "<", "<=", "in", "not in", "contains", "not contains"}

\* a value of a condition: a string, or the one-element array holding it
Scalar(s) == [arr |-> FALSE, v |-> s]
Array(s) == [arr |-> TRUE, v |-> s]

\* whether record r satisfies the clause <<field, operator, value>>
Sat(r, cl) ==
  LET f == cl[1]
      op == cl[2]
      val == cl[3]
  IN  /\ Has(r, f)
      /\ CASE op = "=" -> ~val.arr /\ r[f] = val.v
           [] op = "!=" -> val.arr \/ r[f] # val.v
           [] op = ">" -> ~val.arr /\ Rank(r[f]) > Rank(val.v)
           [] op = ">=" -> ~val.arr /\ Rank(r[f]) >= Rank(val.v)
           [] op = "<" -> ~val.arr /\ Rank(r[f]) < Rank(val.v)
           [] op = "<=" -> ~val.arr /\ Rank(r[f]) <= Rank(val.v)
           [] op = "in" -> val.arr /\ r[f] = val.v
           [] op = "not in" -> ~val.arr \/ r[f] # val.v
           [] op = "contains" -> ~val.arr /\ Contains(r[f], val.v)
           [] op = "not contains" -> val.arr \/ ~Contains(r[f], val.v)
           [] OTHER -> FALSE

\* the one value of a one-element set: Only({e(x) : x \in {v}}) is e with
\* x naming the value v, worked out once
Only(S) == CHOOSE x \in S : TRUE

Min(S) == CHOOSE x \in S : \A y \in S : x <= y

RECURSIVE SortIds(_)
SortIds(S) ==
  Only({IF T = {} THEN <<>>
        ELSE Only({<<m>> \o SortIds(T \ {m}) : m \in {Min(T)}})
        : T \in {S}})

Take(s, n) == IF Len(s) <= n THEN s ELSE SubSeq(s, 1, n)

\* client.query(collection): a query object; Where, Limit and Order build on it
Query(coll) == [t |-> "query", coll |-> coll, where |-> <<>>, limit |-> 0]
Where(q, clauses) == [q EXCEPT !.where = @ \o clauses]
Limit(q, n) == [q EXCEPT !.limit = n]

\* the ids of the records of a collection that satisfy every clause
Selected(coll, clauses) ==
  {i \in DOMAIN coll : \A k \in 1..Len(clauses) : Sat(coll[i], clauses[k])}

\* the records of a collection that a query selects, in id order
Select(st, q) ==
  Only({IF q.limit > 0 THEN Take([k \in 1..Len(ids) |-> st.recs[q.coll][ids[k]]], q.limit)
        ELSE [k \in 1..Len(ids) |-> st.recs[q.coll][ids[k]]]
        : ids \in {SortIds(Selected(st.recs[q.coll], q.where))}})

\* the store rejects a query that carries an operator it does not know
BadQuery(q) == \E k \in 1..Len(q.where) : q.where[k][2] \notin StoreOperators

\* One client call: it is logged, and it rejects when it is the call the
\* environment fails (failAt) or the store cannot run it.
ClientCall(op, coll, where, id, values) ==
  [op |-> op, coll |-> coll, where |-> where, limit |-> 0, id |-> id,
   values |-> values, io |-> 0]

\* client.query is no call to the store: it is logged and not numbered
Log(ctx, c) == [ctx EXCEPT !.calls = Append(@, c)]
\* a call to the store takes the next number
Issue(ctx, c) ==
  [ctx EXCEPT !.calls = Append(@, [c EXCEPT !.io = ctx.io + 1]), !.io = @ + 1]
Fails(ctx) == ctx.io = ctx.failAt

Ok(ctx, val) == [ctx |-> ctx, ok |-> TRUE, val |-> val]
Throw(ctx, err) == [ctx |-> ctx, ok |-> FALSE, val |-> err]

\* const x = v, and what follows it
Bind(v, K(_)) == Only({K(x) : x \in {v}})
\* const x = await m, and what follows it; a rejection of m ends the whole
Then(m, K(_)) == Only({IF x.ok THEN K(x) ELSE x : x \in {m}})

\* the error the n-th client call rejects with
StoreError(n) == [Err("StoreOperationFailed", Undefined) EXCEPT !.at = n]
TypeError == Err("TypeError", Undefined)

\* a validation that found nothing to reject
Passed == Undef

ClientQuery(ctx, coll) ==
  Ok(Log(ctx, ClientCall("query", coll, <<>>, 0, EmptyRec)), Query(coll))

ClientFetch(ctx, q) ==
  Only({IF Fails(c) \/ BadQuery(q) THEN Throw(c, StoreError(c.io))
        ELSE Ok(c, List(Select(c.st, q)))
        : c \in {Issue(ctx, [ClientCall("fetch", q.coll, q.where, 0, EmptyRec)
                               EXCEPT !.limit = q.limit])}})

ClientFetchOne(ctx, q) ==
  Only({IF Fails(c) \/ BadQuery(q) THEN Throw(c, StoreError(c.io))
        ELSE Only({Ok(c, IF Len(found) > 0 THEN Rec(found[1]) ELSE Null)
                   : found \in {Select(c.st, q)}})
        : c \in {Issue(ctx, [ClientCall("fetchOne", q.coll, q.where, 0, EmptyRec)
                               EXCEPT !.limit = q.limit])}})

ClientFetchById(ctx, coll, id) ==
  Only({IF Fails(c) THEN Throw(c, StoreError(c.io))
        ELSE Ok(c, IF id \in DOMAIN c.st.recs[coll]
                   THEN Rec(c.st.recs[coll][id]) ELSE Null)
        : c \in {Issue(ctx, ClientCall("fetchById", coll, <<>>, id, EmptyRec))}})

\* the collection with record r under id
With(coll, id, r) ==
  [i \in (DOMAIN coll) \cup {id} |-> IF i = id THEN r ELSE coll[i]]

\* insert: the store assigns the id and answers with the stored record
ClientInsert(ctx, coll, values) ==
  Only({IF Fails(c) THEN Throw(c, StoreError(c.io))
        ELSE Only({Ok([c EXCEPT !.st.recs[coll] = With(@, r.id, r),
                                !.st.nextId = @ + 1], Rec(r))
                   : r \in {Merge(values, [id |-> c.st.nextId])}})
        : c \in {Issue(ctx, ClientCall("insert", coll, <<>>, 0, values))}})

\* update by id merges the patch; the client answers with nothing, or with
\* the record when the store echoes it
ClientUpdate(ctx, coll, id, patch) ==
  Only({IF Fails(c) \/ id \notin DOMAIN c.st.recs[coll] THEN Throw(c, StoreError(c.io))
        ELSE Only({Ok([c EXCEPT !.st.recs[coll][id] = r],
                      IF c.echo THEN Rec(r) ELSE Undef)
                   : r \in {Merge(c.st.recs[coll][id], patch)}})
        : c \in {Issue(ctx, ClientCall("update", coll, <<>>, id, patch))}})

ClientDelete(ctx, coll, id) ==
  Only({IF Fails(c) THEN Throw(c, StoreError(c.io))
        ELSE Ok([c EXCEPT !.st.recs[coll] = [i \in (DOMAIN @) \ {id} |-> @[i]]],
                Undef)
        : c \in {Issue(ctx, ClientCall("delete", coll, <<>>, id, EmptyRec))}})

\* calls started together, before any of them is awaited: each takes its
\* number, in the order of the array that map() walks
IssueAll(ctx, cs) ==
  [ctx EXCEPT !.calls = @ \o [k \in 1..Len(cs) |-> [cs[k] EXCEPT !.io = ctx.io + k]],
              !.io = @ + Len(cs)]

\* which of the n calls numbered after `base` rejects (0: none)
FailedOf(ctx, base, n) ==
  IF ctx.failAt \in (base + 1)..(base + n) THEN ctx.failAt - base ELSE 0

\* a call that is running: refetch tells that the code which awaits it goes
\* on to fetchById(coll, id)
Task(op, coll, id, values, refetch) ==
  [op |-> op, coll |-> coll, id |-> id, values |-> values, refetch |-> refetch]

\* the calls the store has not answered when the promise settles
Pend(ctx, tasks) == [ctx EXCEPT !.pending = @ \o tasks]

\* the store once the running call has been carried out
Applied(st, task) ==
  CASE task.op = "update" /\ task.id \in DOMAIN st.recs[task.coll] ->
         [st EXCEPT !.recs[task.coll][task.id] = Merge(@, task.values)]
    [] task.op = "delete" ->
         [st EXCEPT !.recs[task.coll] = [i \in (DOMAIN @) \ {task.id} |-> @[i]]]
    [] OTHER -> st

RECURSIVE AppliedAll(_, _)
AppliedAll(st, tasks) ==
  IF tasks = <<>> THEN st ELSE AppliedAll(Applied(st, Head(tasks)), Tail(tasks))

\* a join that undoes what the answered calls did when one call rejects
PromiseAll_RollingBack(ctx, tasks) ==
  Bind(IssueAll(ctx, [k \in 1..Len(tasks) |->
         ClientCall(tasks[k].op, tasks[k].coll, <<>>, tasks[k].id,
                    tasks[k].values)]), LAMBDA c :
  Bind(FailedOf(ctx, ctx.io, Len(tasks)), LAMBDA f :
    IF f = 0
    THEN [ctx |-> [c EXCEPT !.st = AppliedAll(@, tasks)], ok |-> TRUE,
          val |-> Undef, answered |-> Len(tasks)]
    ELSE [ctx |-> c, ok |-> FALSE, val |-> StoreError(ctx.io + f),
          answered |-> f - 1]))

\* Promise.all(calls): the calls are answered in the order they were
\* issued, and the first rejection settles the promise while the later
\* calls are still running
PromiseAll(ctx, tasks) ==
  Bind(IssueAll(ctx, [k \in 1..Len(tasks) |->
         ClientCall(tasks[k].op, tasks[k].coll, <<>>, tasks[k].id,
                    tasks[k].values)]), LAMBDA c :
  Bind(FailedOf(ctx, ctx.io, Len(tasks)), LAMBDA f :
    IF f = 0
    THEN [ctx |-> [c EXCEPT !.st = AppliedAll(@, tasks)], ok |-> TRUE,
          val |-> Undef, answered |-> Len(tasks)]
    ELSE [ctx |-> Pend([c EXCEPT !.st = AppliedAll(@, SubSeq(tasks, 1, f - 1))],
                       SubSeq(tasks, f + 1, Len(tasks))),
          ok |-> FALSE, val |-> StoreError(ctx.io + f), answered |-> f - 1]))


----------------------------------------------------------------------------
(* createTransform: the pieces both copies share *)

getCollectionName(cfg, tableName) ==
  IF cfg.customName THEN CustomName(tableName) ELSE tableName

\* a timestamp is falsy only as the raw number 0
TruthyStamp(d) == d.isDate \/ d.ms # 0

\* a property that holds null
NullValue == "null"

\* JavaScript truthiness of the value of a payload field that holds a string,
\* null or undefined
TruthyValue(v) == v \notin {Undefined, NullValue, ""}

\* transformer(value): what a configured function makes of a value.  Nothing
\* is known of the functions a configuration holds but their names, so the
\* application is written out; "blank" is a function that returns "".
Apply(fn, v) == IF fn = "blank" THEN "" ELSE fn \o "(" \o v \o ")"

\* config.field_options?.transformers?.[model]: the entries [field,
\* transformer] of the model in the order of the mapping, none when nothing
\* is configured for the model
modelTransformers(cfg, model) ==
  IF Has(cfg, "field_options") /\ Has(cfg.field_options.transformers, model)
  THEN cfg.field_options.transformers[model] ELSE <<>>

\* Object.entries(modelTransformers).forEach(...), from the k-th entry on
RECURSIVE ApplyTransformers(_, _, _)
ApplyTransformers(data, entries, k) ==
  IF k > Len(entries) THEN data
  ELSE ApplyTransformers(
         IF Has(data, entries[k].field) /\ data[entries[k].field] # Undefined
         THEN [data EXCEPT ![entries[k].field] = Apply(entries[k].fn, @)]
         ELSE data,
         entries, k + 1)

\* config.id_options?.field_name || "id"
idField(cfg) ==
  IF /\ Has(cfg, "id_options")
     /\ Has(cfg.id_options, "field_name")
     /\ cfg.id_options.field_name # ""
  THEN cfg.id_options.field_name ELSE "id"

\* if (transformedData[idField] && config.id_options?.transform) ...
ApplyIdTransform(cfg, data) ==
  IF /\ Has(cfg, "id_options")
     /\ Has(cfg.id_options, "transform")
     /\ Has(data, idField(cfg))
     /\ TruthyValue(data[idField(cfg)])
  THEN [data EXCEPT ![idField(cfg)] = Apply(cfg.id_options.transform, @)]
  ELSE data

\* the payload once the field transformers and the id transform have run
Reshaped(cfg, data, model) ==
  ApplyIdTransform(cfg, ApplyTransformers(data, modelTransformers(cfg, model), 1))

\* a stamping that leaves an update's own updatedAt in place
transformInput_KeepingSupplied(cfg, data, model, operation, clock) ==
  LET created ==
        IF operation = "create" /\ ~(Has(data, "createdAt") /\ TruthyStamp(data.createdAt))
        THEN Merge(data, [createdAt |-> Date(clock)]) ELSE data
  IN  IF Has(created, "updatedAt") /\ TruthyStamp(created.updatedAt) THEN created
      ELSE Merge(created, [updatedAt |-> Date(clock)])

\* a reshaping that runs the id transform before the field transformers
transformInput_IdFirst(cfg, data, model, operation, clock) ==
  Merge(ApplyTransformers(ApplyIdTransform(cfg, data),
                          modelTransformers(cfg, model), 1),
        IF operation = "create"
        THEN [createdAt |-> Date(clock), updatedAt |-> Date(clock)]
        ELSE [updatedAt |-> Date(clock)])

\* { ...data }, the field transformers of the model, the id transform, and
\* the stamps
transformInput(cfg, data, model, operation, clock) ==
  LET transformedData == Reshaped(cfg, data, model)
      created ==
        IF operation = "create"
           /\ ~(Has(transformedData, "createdAt") /\ TruthyStamp(transformedData.createdAt))
        THEN Merge(transformedData, [createdAt |-> Date(clock)]) ELSE transformedData
      updated ==
        IF operation = "create" /\ ~(Has(created, "updatedAt") /\ TruthyStamp(created.updatedAt))
        THEN Merge(created, [updatedAt |-> Date(clock)]) ELSE created
  IN  IF operation = "update" THEN Merge(updated, [updatedAt |-> Date(clock)])
      ELSE updated

\* new Date(x) of a value that is not a Date
AsDate(r, f) ==
  IF Has(r, f) /\ TruthyStamp(r[f]) /\ ~r[f].isDate
  THEN [r EXCEPT ![f] = Date(r[f].ms)] ELSE r

transformOutput(data, model) ==
  IF ~Truthy(data) THEN Null
  ELSE [data EXCEPT !.r = AsDate(AsDate(@, "createdAt"), "updatedAt")]

\* condition.operator || "="
OrEq(op) == IF op # Undefined THEN op ELSE "="

\* the arguments of db, with their defaults
DbReq ==
  [action |-> "", tableName |-> "", values |-> EmptyRec, where |-> <<>>,
   query |-> Null, id |-> 0, update |-> EmptyRec, limit |-> 0,
   deleteAll |-> FALSE]

\* new Error(`Unsupported action: ${action}`)
UnsupportedAction(action) == Err("Unsupported action", action)



----------------------------------------------------------------------------
(* createTransform, copy T2 (src/unnamed/part_001) *)

transformWhereOperators_T2(where) ==
  [k \in 1..Len(where) |->
     LET op == where[k].operator
         mapped == IF op = Undefined THEN op
                   ELSE IF op = "==" THEN "="
                   ELSE IF op = "not_in" THEN "not in"
                   ELSE op
     IN  [where[k] EXCEPT !.operator = IF mapped = Undefined THEN "=" ELSE mapped]]

supportedTriplitOperators_T2 ==
  {"=", "!=", ">", ">=", "<", "<=", "in", "not in", "contains", "not contains"}

\* throws on the first condition whose operator is not in the list
filterInvalidOperators_T2(mappedWhere) ==
  LET bad == {k \in 1..Len(mappedWhere) :
                mappedWhere[k].operator \notin supportedTriplitOperators_T2}
      first == CHOOSE k \in bad : \A j \in bad : k <= j
  IN  IF bad = {} THEN Passed
      ELSE Err("UnsupportedOperator", mappedWhere[first].operator)

\* clauses that leave out the conditions joined by OR
Clauses_T2_DroppingOr(where) ==
  [k \in 1..Len(SelectSeq(where, LAMBDA c : c.connector # "OR")) |->
     <<SelectSeq(where, LAMBDA c : c.connector # "OR")[k].field,
       OrEq(SelectSeq(where, LAMBDA c : c.connector # "OR")[k].operator),
       SelectSeq(where, LAMBDA c : c.connector # "OR")[k].value>>]

Clauses_T2(where) ==
  [k \in 1..Len(where) |->
     <<where[k].field, OrEq(where[k].operator), where[k].value>>]

\* client.query(collectionName), with Where(clauses) when there are conditions
BuildQuery_T2(ctx, coll, where) ==
  Bind(ClientQuery(ctx, coll), LAMBDA q :
    IF Len(where) > 0 THEN Ok(q.ctx, Where(q.val, Clauses_T2(where))) ELSE q)

\* Promise.all(entities.map(e => client.delete(collection, e.id))): every
\* delete is issued; the first rejection is the rejection of the whole
DeleteEach_T2(ctx, coll, entities) ==
  Bind(PromiseAll(ctx, [k \in 1..Len(entities) |->
         Task("delete", coll, entities[k].id, EmptyRec, FALSE)]), LAMBDA all :
    [ctx |-> all.ctx, ok |-> all.ok, val |-> all.val])

db_T2(cfg, ctx, req) ==
  Bind(getCollectionName(cfg, req.tableName), LAMBDA collectionName :
  CASE req.action = "insert" ->
         Then(ClientInsert(ctx, collectionName, req.values), LAMBDA res :
           IF Truthy(res.val) /\ Has(res.val.r, "id") /\ res.val.r.id # 0
           THEN ClientFetchById(res.ctx, collectionName, res.val.r.id)
           ELSE res)
    [] req.action = "queryOne" ->
         Bind(BuildQuery_T2(ctx, collectionName, req.where), LAMBDA q :
           ClientFetchOne(q.ctx, q.val))
    [] req.action = "query" ->
         IF Truthy(req.query) THEN ClientFetch(ctx, req.query)
         ELSE Bind(BuildQuery_T2(ctx, collectionName, req.where), LAMBDA q :
              Bind(IF req.limit # 0 THEN Limit(q.val, req.limit) ELSE q.val, LAMBDA limited :
                ClientFetch(q.ctx, limited)))
    [] req.action = "update" ->
         IF req.id # 0
         THEN Then(ClientUpdate(ctx, collectionName, req.id, req.update), LAMBDA u :
                ClientFetchById(u.ctx, collectionName, req.id))
         ELSE Bind(BuildQuery_T2(ctx, collectionName, req.where), LAMBDA q :
              Then(ClientFetchOne(q.ctx, q.val), LAMBDA entityToUpdate :
                IF Truthy(entityToUpdate.val) /\ entityToUpdate.val.r.id # 0
                THEN Then(ClientUpdate(entityToUpdate.ctx, collectionName,
                                       entityToUpdate.val.r.id, req.update), LAMBDA u :
                       ClientFetchById(u.ctx, collectionName, entityToUpdate.val.r.id))
                ELSE Ok(entityToUpdate.ctx, Null)))
    [] req.action = "delete" ->
         IF req.id # 0
         THEN Then(ClientDelete(ctx, collectionName, req.id), LAMBDA d :
                Ok(d.ctx, Bool(TRUE)))
         ELSE Bind(BuildQuery_T2(ctx, collectionName, req.where), LAMBDA q :
              Then(ClientFetch(q.ctx, q.val), LAMBDA entitiesToDelete :
              Bind(entitiesToDelete.val.l, LAMBDA found :
                IF req.deleteAll
                THEN IF Len(found) > 0
                     THEN Then(DeleteEach_T2(entitiesToDelete.ctx, collectionName, found),
                               LAMBDA d : Ok(d.ctx, Num(Len(found))))
                     ELSE Ok(entitiesToDelete.ctx, Num(0))
                ELSE IF Len(found) > 0
                     THEN Then(ClientDelete(entitiesToDelete.ctx, collectionName, found[1].id),
                               LAMBDA d : Ok(d.ctx, Bool(TRUE)))
                     ELSE Ok(entitiesToDelete.ctx, Bool(FALSE)))))
    [] req.action = "count" ->
         Bind(BuildQuery_T2(ctx, collectionName, req.where), LAMBDA q :
         Then(ClientFetch(q.ctx, q.val), LAMBDA results :
           Ok(results.ctx, Num(Len(results.val.l)))))
    [] OTHER -> Throw(ctx, UnsupportedAction(req.action)))


----------------------------------------------------------------------------
(* createTransform, copy T1 (src/src/transform.ts) *)

transformWhereOperators_T1(where) ==
  [k \in 1..Len(where) |->
     LET op == where[k].operator
     IN  [where[k] EXCEPT !.operator =
            IF op = Undefined THEN op
            ELSE IF op = "==" THEN "="
            ELSE IF op = "not_in" THEN "not in"
            ELSE op]]

supportedOperators_T1 ==
  {"=", "==", "!=", ">", ">=", "<", "<=", "in", "not_in", "contains", "notContains"}

\* `where = where.filter(...)` rebinds the parameter: the filtered list is
\* dropped, nothing is thrown and the caller's list is what it was
filterInvalidOperators_T1(where) ==
  LET kept == SelectSeq(where,
                LAMBDA c : OrEq(c.operator) \in supportedOperators_T1)
  IN  Passed

\* query.Where(field, triplitOp, value), once per condition
Clauses_T1(where) ==
  [k \in 1..Len(where) |->
     LET op == OrEq(where[k].operator)
         triplitOp == IF op = "==" THEN "=" ELSE op
     IN  <<where[k].field, triplitOp, where[k].value>>]

BuildQuery_T1(ctx, coll, where) ==
  Bind(ClientQuery(ctx, coll), LAMBDA q :
    Ok(q.ctx, Where(q.val, Clauses_T1(where))))

\* for (const entity of entities) await client.delete(...): one at a time,
\* and the first rejection ends the loop
RECURSIVE DeleteEach_T1(_, _, _, _)
DeleteEach_T1(ctx, coll, entities, k) ==
  IF k > Len(entities) THEN Ok(ctx, Undef)
  ELSE Then(ClientDelete(ctx, coll, entities[k].id), LAMBDA d :
         DeleteEach_T1(d.ctx, coll, entities, k + 1))

db_T1(cfg, ctx, req) ==
  Bind(getCollectionName(cfg, req.tableName), LAMBDA collectionName :
  CASE req.action = "insert" -> ClientInsert(ctx, collectionName, req.values)
    [] req.action = "queryOne" ->
         Bind(BuildQuery_T1(ctx, collectionName, req.where), LAMBDA q :
           ClientFetchOne(q.ctx, q.val))
    [] req.action = "query" ->
         IF Truthy(req.query)
         THEN ClientFetch(ctx, IF req.limit # 0 THEN Limit(req.query, req.limit)
                               ELSE req.query)
         ELSE Bind(BuildQuery_T1(ctx, collectionName, req.where), LAMBDA q :
              Bind(IF req.limit # 0 THEN Limit(q.val, req.limit) ELSE q.val, LAMBDA limited :
                ClientFetch(q.ctx, limited)))
    [] req.action = "update" ->
         IF req.id # 0 THEN ClientUpdate(ctx, collectionName, req.id, req.update)
         ELSE Bind(BuildQuery_T1(ctx, collectionName, req.where), LAMBDA q :
              Then(ClientFetch(q.ctx, q.val), LAMBDA entitiesToUpdate :
                IF Len(entitiesToUpdate.val.l) > 0
                THEN ClientUpdate(entitiesToUpdate.ctx, collectionName,
                                  entitiesToUpdate.val.l[1].id, req.update)
                ELSE Ok(entitiesToUpdate.ctx, Null)))
    [] req.action = "delete" ->
         IF req.id # 0
         THEN Then(ClientDelete(ctx, collectionName, req.id), LAMBDA d :
                Ok(d.ctx, Bool(TRUE)))
         ELSE Bind(BuildQuery_T1(ctx, collectionName, req.where), LAMBDA q :
              Then(ClientFetch(q.ctx, q.val), LAMBDA entitiesToDelete :
              Bind(entitiesToDelete.val.l, LAMBDA found :
                IF req.deleteAll
                THEN Then(DeleteEach_T1(entitiesToDelete.ctx, collectionName, found, 1),
                          LAMBDA d : Ok(d.ctx, Num(Len(found))))
                ELSE IF Len(found) > 0
                     THEN Then(ClientDelete(entitiesToDelete.ctx, collectionName, found[1].id),
                               LAMBDA d : Ok(d.ctx, Bool(TRUE)))
                     ELSE Ok(entitiesToDelete.ctx, Bool(FALSE)))))
    [] req.action = "count" ->
         Bind(BuildQuery_T1(ctx, collectionName, req.where), LAMBDA q :
         Then(ClientFetch(q.ctx, q.val), LAMBDA results :
           Ok(results.ctx, Num(Len(results.val.l)))))
    [] OTHER -> Throw(ctx, UnsupportedAction(req.action)))

----------------------------------------------------------------------------
(* The linked copy of createTransform *)

transformWhereOperators(t, where) ==
  IF t = T2 THEN transformWhereOperators_T2(where)
  ELSE transformWhereOperators_T1(where)

filterInvalidOperators(t, where) ==
  IF t = T2 THEN filterInvalidOperators_T2(where)
  ELSE filterInvalidOperators_T1(where)

db(t, cfg, ctx, req) ==
  IF t = T2 THEN db_T2(cfg, ctx, req) ELSE db_T1(cfg, ctx, req)


----------------------------------------------------------------------------
(* triplitAdapter: what the copies share *)

\* The arguments of a verb call; failAt and echo are the store's part: which
\* client call rejects (0: none) and whether client.update answers with the
\* record.
Ctx(st, clock, args) ==
  [st |-> st, calls |-> <<>>, io |-> 0, failAt |-> args.failAt,
   echo |-> args.echo, now |-> clock, pending |-> <<>>]

\* for (const key of select) if (key in res) result[key] = res[key]
ProjectPresent(v, select) ==
  [t |-> "rec", r |-> [f \in select \cap DOMAIN v.r |-> v.r[f]],
   undef |-> select \cap v.undef]

\* for (const key of select) result[key] = res[key]: a key that res lacks
\* is set to undefined
ProjectAll(v, select) ==
  [t |-> "rec", r |-> [f \in select \cap DOMAIN v.r |-> v.r[f]],
   undef |-> select \ DOMAIN v.r]

\* result ? transformOutput(result, model) : result
OutputIf(res, model) ==
  IF Truthy(res) THEN transformOutput(res, model) ELSE res

\* results.map(x => transformOutput(x, model))
MapOutput(l, model) == [k \in 1..Len(l) |-> transformOutput(l[k], model)]
Recs(l) == [k \in 1..Len(l) |-> Rec(l[k])]

\* entities.map(async e => db({ action: "delete", id: e.id })) joined by
\* Promise.all: each db call runs to its await of client.delete, so every
\* delete is issued before any is answered; the first rejection is the
\* outcome
FanOutDelete(t, cfg, ctx, model, entities) ==
  Bind(PromiseAll(ctx, [k \in 1..Len(entities) |->
         Task("delete", getCollectionName(cfg, model), entities[k].id,
              EmptyRec, FALSE)]), LAMBDA all :
    [ctx |-> all.ctx, ok |-> all.ok, val |-> all.val])

\* entities.map(async e => db({ action: "update", id: e.id, update })): each
\* db call runs to its first await before the next starts, so every
\* client.update is issued before any fetchById of copy T2
FanOutUpdate(t, cfg, ctx, model, entities, update) ==
  Bind(getCollectionName(cfg, model), LAMBDA coll :
  Bind(PromiseAll(ctx, [k \in 1..Len(entities) |->
         Task("update", coll, entities[k].id, update, t = T2)]), LAMBDA all :
    [ctx |-> all.ctx, ok |-> all.ok, val |-> all.val,
     done |-> [k \in 1..all.answered |->
                 [id |-> entities[k].id,
                  val |-> IF ctx.echo
                          THEN Rec(all.ctx.st.recs[coll][entities[k].id])
                          ELSE Undef]]]))

\* the second half of each db call of copy T2: fetchById of the updated id,
\* issued when its update is answered.  When an update has rejected, the
\* fetches of the updates answered before it are running.
FanOutRefetch(cfg, ctx, model, done, rejected) ==
  Bind(getCollectionName(cfg, model), LAMBDA coll :
  Bind([k \in 1..Len(done) |-> Task("fetchById", coll, done[k].id, EmptyRec, FALSE)],
       LAMBDA fetches :
    IF rejected
    THEN [ctx |-> Pend(IssueAll(ctx, [k \in 1..Len(fetches) |->
                         ClientCall("fetchById", coll, <<>>, fetches[k].id, EmptyRec)]),
                       fetches),
          ok |-> FALSE, val |-> Undef, got |-> <<>>]
    ELSE Bind(PromiseAll(ctx, fetches), LAMBDA all :
           [ctx |-> all.ctx, ok |-> all.ok, val |-> all.val,
            got |-> [k \in 1..all.answered |->
                       IF done[k].id \in DOMAIN all.ctx.st.recs[coll]
                       THEN Rec(all.ctx.st.recs[coll][done[k].id]) ELSE Null]])))

\* await Promise.all(updates): the list of what each db call returned
UpdateAll(t, cfg, ctx, model, entities, update) ==
  Bind(FanOutUpdate(t, cfg, ctx, model, entities, update), LAMBDA first :
    IF t = T1
    THEN IF first.ok
         THEN Ok(first.ctx, List([k \in 1..Len(first.done) |-> first.done[k].val]))
         ELSE Throw(first.ctx, first.val)
    ELSE Bind(FanOutRefetch(cfg, first.ctx, model, first.done, ~first.ok),
              LAMBDA second :
           IF ~first.ok THEN Throw(second.ctx, first.val)
           ELSE IF ~second.ok THEN Throw(second.ctx, second.val)
           ELSE Ok(second.ctx, List(second.got))))

\* const where = <the processed filter list>, and what follows it; a
\* rejected operator ends the verb before any client call
WithWhere(processed, ctx, K(_)) ==
  Only({IF w.t = "err" THEN Throw(ctx, w) ELSE K(w.l) : w \in {processed}})


----------------------------------------------------------------------------
(* triplitAdapter, copy A1 (src/unnamed/part_002) *)

mapOperatorToTriplit_A1(operator) ==
  IF operator \in {"=", "!=", ">", ">=", "<", "<=", "in"} THEN operator
  ELSE IF operator = "==" THEN "="
  ELSE IF operator = "not_in" THEN "not in"
  ELSE "="

\* filterInvalidOperators(where); where = transformWhereOperators(where)
processWhere_A1(t, where) ==
  Bind(filterInvalidOperators(t, where), LAMBDA checked :
    IF checked.t = "err" THEN checked
    ELSE List(transformWhereOperators(t, where)))

create_A1(t, cfg, ctx, args) ==
  Bind(transformInput(cfg, args.data, args.model, "create", ctx.now), LAMBDA transformed :
  Then(db(t, cfg, ctx, [DbReq EXCEPT !.action = "insert",
                          !.tableName = args.model, !.values = transformed]), LAMBDA res :
    IF args.select = {} THEN Ok(res.ctx, OutputIf(res.val, args.model))
    ELSE IF ~Truthy(res.val) THEN Throw(res.ctx, TypeError)
    ELSE Ok(res.ctx, OutputIf(ProjectAll(res.val, args.select), args.model))))

findOne_A1(t, cfg, ctx, args) ==
  WithWhere(processWhere_A1(t, args.where), ctx, LAMBDA where :
  Then(db(t, cfg, ctx, [DbReq EXCEPT !.action = "queryOne",
                          !.tableName = args.model, !.where = where]), LAMBDA res :
    IF args.select = {} THEN Ok(res.ctx, OutputIf(res.val, args.model))
    ELSE IF ~Truthy(res.val) THEN Throw(res.ctx, TypeError)
    ELSE Ok(res.ctx, OutputIf(ProjectAll(res.val, args.select), args.model))))

\* results.slice(offset)
Slice(l, offset) == IF offset >= Len(l) THEN <<>> ELSE SubSeq(l, offset + 1, Len(l))

findMany_A1(t, cfg, ctx, args) ==
  WithWhere(processWhere_A1(t, args.where), ctx, LAMBDA where :
  Bind(ClientQuery(ctx, args.model), LAMBDA q0 :
  Bind([k \in 1..Len(where) |->
          <<where[k].field, mapOperatorToTriplit_A1(OrEq(where[k].operator)),
            where[k].value>>], LAMBDA clauses :
  Bind(Where(q0.val, clauses), LAMBDA q1 :
  Bind(IF args.limit # 0 THEN Limit(q1, args.limit) ELSE q1, LAMBDA q2 :
  Then(db(t, cfg, q0.ctx, [DbReq EXCEPT !.action = "query",
                             !.tableName = args.model, !.query = q2]), LAMBDA results :
  Bind(IF args.offset > 0 THEN Slice(results.val.l, args.offset)
       ELSE results.val.l, LAMBDA sliced :
    Ok(results.ctx, List(MapOutput(Recs(sliced), args.model))))))))))

update_A1(t, cfg, ctx, args) ==
  WithWhere(processWhere_A1(t, args.where), ctx, LAMBDA where :
  Bind(transformInput(cfg, args.update, args.model, "update", ctx.now), LAMBDA transformed :
  Then(db(t, cfg, ctx, [DbReq EXCEPT !.action = "queryOne",
                          !.tableName = args.model, !.where = where]), LAMBDA entityToUpdate :
    IF ~Truthy(entityToUpdate.val) THEN Ok(entityToUpdate.ctx, Null)
    ELSE Then(db(t, cfg, entityToUpdate.ctx,
                 [DbReq EXCEPT !.action = "update", !.tableName = args.model,
                    !.id = entityToUpdate.val.r.id, !.update = transformed]), LAMBDA res :
           Ok(res.ctx, transformOutput(res.val, args.model))))))

updateMany_A1(t, cfg, ctx, args) ==
  WithWhere(processWhere_A1(t, args.where), ctx, LAMBDA where :
  Bind(transformInput(cfg, args.update, args.model, "update", ctx.now), LAMBDA transformed :
  Then(db(t, cfg, ctx, [DbReq EXCEPT !.action = "query",
                          !.tableName = args.model, !.where = where]), LAMBDA entitiesToUpdate :
  Then(UpdateAll(t, cfg, entitiesToUpdate.ctx, args.model,
                 entitiesToUpdate.val.l, transformed), LAMBDA updatedEntities :
    Ok(updatedEntities.ctx, List(MapOutput(updatedEntities.val.l, args.model)))))))

delete_A1(t, cfg, ctx, args) ==
  WithWhere(processWhere_A1(t, args.where), ctx, LAMBDA where :
  Then(db(t, cfg, ctx, [DbReq EXCEPT !.action = "queryOne",
                          !.tableName = args.model, !.where = where]), LAMBDA entityToDelete :
    IF ~Truthy(entityToDelete.val) THEN Ok(entityToDelete.ctx, Undef)
    ELSE Then(db(t, cfg, entityToDelete.ctx,
                 [DbReq EXCEPT !.action = "delete", !.tableName = args.model,
                    !.id = entityToDelete.val.r.id]), LAMBDA d :
           Ok(d.ctx, Undef))))

deleteMany_A1(t, cfg, ctx, args) ==
  WithWhere(processWhere_A1(t, args.where), ctx, LAMBDA where :
  Then(db(t, cfg, ctx, [DbReq EXCEPT !.action = "query",
                          !.tableName = args.model, !.where = where]), LAMBDA entitiesToDelete :
  Then(FanOutDelete(t, cfg, entitiesToDelete.ctx, args.model,
                    entitiesToDelete.val.l), LAMBDA d :
    Ok(d.ctx, Num(Len(entitiesToDelete.val.l))))))

count_A1(t, cfg, ctx, args) ==
  WithWhere(processWhere_A1(t, args.where), ctx, LAMBDA where :
  Then(db(t, cfg, ctx, [DbReq EXCEPT !.action = "query",
                          !.tableName = args.model, !.where = where]), LAMBDA entities :
    Ok(entities.ctx, Num(Len(entities.val.l)))))


----------------------------------------------------------------------------
(* triplitAdapter, copy A2 (src/src/adapter.ts) *)

mapOperatorToTriplit_A2(operator) ==
  IF operator \in {"=", "!=", ">", ">=", "<", "<=", "in", "not in", "contains"}
  THEN operator
  ELSE IF operator = "==" THEN "="
  ELSE IF operator = "not_in" THEN "not in"
  ELSE IF operator = "notContains" THEN "not contains"
  ELSE "="

\* the clone is validated first and mapped afterwards
processWhere_A2(t, where) ==
  Bind(filterInvalidOperators(t, where), LAMBDA checked :
    IF checked.t = "err" THEN checked
    ELSE List(transformWhereOperators(t, where)))

create_A2(t, cfg, ctx, args) ==
  Bind(transformInput(cfg, args.data, args.model, "create", ctx.now), LAMBDA transformed :
  Then(db(t, cfg, ctx, [DbReq EXCEPT !.action = "insert",
                          !.tableName = args.model, !.values = transformed]), LAMBDA res :
  Bind(IF args.select = {} THEN res.val
       ELSE IF Truthy(res.val) THEN ProjectPresent(res.val, args.select)
       ELSE Null, LAMBDA picked :
    Ok(res.ctx, OutputIf(picked, args.model)))))

findOne_A2(t, cfg, ctx, args) ==
  WithWhere(processWhere_A2(t, args.where), ctx, LAMBDA where :
  Then(db(t, cfg, ctx, [DbReq EXCEPT !.action = "queryOne",
                          !.tableName = args.model, !.where = where]), LAMBDA res :
    IF ~Truthy(res.val) THEN Ok(res.ctx, Null)
    ELSE Bind(IF args.select = {} THEN res.val
              ELSE ProjectPresent(res.val, args.select), LAMBDA picked :
           Ok(res.ctx, OutputIf(picked, args.model)))))

findMany_A2(t, cfg, ctx, args) ==
  WithWhere(processWhere_A2(t, args.where), ctx, LAMBDA where :
  Bind(ClientQuery(ctx, args.model), LAMBDA q0 :
  Bind([k \in 1..Len(where) |->
          <<where[k].field, mapOperatorToTriplit_A2(OrEq(where[k].operator)),
            where[k].value>>], LAMBDA clauses :
  Bind(IF Len(where) > 0 THEN Where(q0.val, clauses) ELSE q0.val, LAMBDA q1 :
  Bind(IF args.limit # 0 THEN Limit(q1, args.limit) ELSE q1, LAMBDA q2 :
  Then(db(t, cfg, q0.ctx, [DbReq EXCEPT !.action = "query",
                             !.tableName = args.model, !.query = q2]), LAMBDA results :
    Ok(results.ctx, List(MapOutput(Recs(results.val.l), args.model)))))))))

update_A2(t, cfg, ctx, args) ==
  WithWhere(processWhere_A2(t, args.where), ctx, LAMBDA where :
  Bind(transformInput(cfg, args.update, args.model, "update", ctx.now), LAMBDA transformed :
  Then(db(t, cfg, ctx, [DbReq EXCEPT !.action = "update",
                          !.tableName = args.model, !.where = where,
                          !.update = transformed]), LAMBDA res :
    Ok(res.ctx, IF Truthy(res.val) THEN transformOutput(res.val, args.model)
                ELSE Null))))

updateMany_A2(t, cfg, ctx, args) ==
  WithWhere(processWhere_A2(t, args.where), ctx, LAMBDA where :
  Bind(transformInput(cfg, args.update, args.model, "update", ctx.now), LAMBDA transformed :
  Then(db(t, cfg, ctx, [DbReq EXCEPT !.action = "query",
                          !.tableName = args.model, !.where = where]), LAMBDA entitiesToUpdate :
  Then(UpdateAll(t, cfg, entitiesToUpdate.ctx, args.model,
                 entitiesToUpdate.val.l, transformed), LAMBDA updatedEntities :
    Ok(updatedEntities.ctx, List(MapOutput(updatedEntities.val.l, args.model)))))))

delete_A2(t, cfg, ctx, args) ==
  WithWhere(processWhere_A2(t, args.where), ctx, LAMBDA where :
  Then(db(t, cfg, ctx, [DbReq EXCEPT !.action = "delete",
                          !.tableName = args.model, !.where = where]), LAMBDA d :
    Ok(d.ctx, Undef)))

deleteMany_A2(t, cfg, ctx, args) ==
  WithWhere(processWhere_A2(t, args.where), ctx, LAMBDA where :
    db(t, cfg, ctx, [DbReq EXCEPT !.action = "delete",
                       !.tableName = args.model, !.where = where,
                       !.deleteAll = TRUE]))

count_A2(t, cfg, ctx, args) ==
  WithWhere(processWhere_A2(t, args.where), ctx, LAMBDA where :
    db(t, cfg, ctx, [DbReq EXCEPT !.action = "count",
                       !.tableName = args.model, !.where = where]))

----------------------------------------------------------------------------
(* triplitAdapter, copy A3 (src/src/transform.ts, after createTransform) *)

\* the clone is mapped first, and the mapped list is validated
processWhere_A3(t, where) ==
  Bind(transformWhereOperators(t, where), LAMBDA processedWhere :
  Bind(filterInvalidOperators(t, processedWhere), LAMBDA checked :
    IF checked.t = "err" THEN checked ELSE List(processedWhere)))

create_A3(t, cfg, ctx, args) ==
  Bind(transformInput(cfg, args.data, args.model, "create", ctx.now), LAMBDA transformed :
  Then(db(t, cfg, ctx, [DbReq EXCEPT !.action = "insert",
                          !.tableName = args.model, !.values = transformed]), LAMBDA res :
    IF ~Truthy(res.val) THEN Ok(res.ctx, Null)
    ELSE Bind(IF args.select = {} THEN res.val
              ELSE ProjectPresent(res.val, args.select), LAMBDA picked :
           Ok(res.ctx, OutputIf(picked, args.model)))))

findOne_A3(t, cfg, ctx, args) ==
  WithWhere(processWhere_A3(t, args.where), ctx, LAMBDA where :
  Then(db(t, cfg, ctx, [DbReq EXCEPT !.action = "queryOne",
                          !.tableName = args.model, !.where = where]), LAMBDA res :
    IF ~Truthy(res.val) THEN Ok(res.ctx, Null)
    ELSE Bind(IF args.select = {} THEN res.val
              ELSE ProjectPresent(res.val, args.select), LAMBDA picked :
           Ok(res.ctx, OutputIf(picked, args.model)))))

\* the offset argument is not read
findMany_A3(t, cfg, ctx, args) ==
  WithWhere(processWhere_A3(t, args.where), ctx, LAMBDA where :
  Bind(ClientQuery(ctx, args.model), LAMBDA q0 :
  Bind([k \in 1..Len(where) |->
          <<where[k].field, where[k].operator, where[k].value>>], LAMBDA clauses :
  Bind(IF Len(where) > 0 THEN Where(q0.val, clauses) ELSE q0.val, LAMBDA q1 :
  Bind(IF args.limit # 0 THEN Limit(q1, args.limit) ELSE q1, LAMBDA q2 :
  Then(db(t, cfg, q0.ctx, [DbReq EXCEPT !.action = "query",
                             !.tableName = args.model, !.query = q2]), LAMBDA results :
    Ok(results.ctx, List(MapOutput(Recs(results.val.l), args.model)))))))))

update_A3(t, cfg, ctx, args) ==
  WithWhere(processWhere_A3(t, args.where), ctx, LAMBDA where :
  Bind(transformInput(cfg, args.update, args.model, "update", ctx.now),
       LAMBDA transformedUpdate :
  Then(db(t, cfg, ctx, [DbReq EXCEPT !.action = "update",
                          !.tableName = args.model, !.where = where,
                          !.update = transformedUpdate]), LAMBDA res :
    Ok(res.ctx, IF Truthy(res.val) THEN transformOutput(res.val, args.model)
                ELSE Null))))

\* entities without an id are skipped, and only null is filtered from what
\* the db calls returned
updateMany_A3(t, cfg, ctx, args) ==
  WithWhere(processWhere_A3(t, args.where), ctx, LAMBDA where :
  Bind(transformInput(cfg, args.update, args.model, "update", ctx.now),
       LAMBDA transformedUpdate :
  Then(db(t, cfg, ctx, [DbReq EXCEPT !.action = "query",
                          !.tableName = args.model, !.where = where]),
       LAMBDA entitiesToUpdate :
  Bind(SelectSeq(entitiesToUpdate.val.l, LAMBDA e : Has(e, "id") /\ e.id # 0),
       LAMBDA withId :
  Then(UpdateAll(t, cfg, entitiesToUpdate.ctx, args.model, withId,
                 transformedUpdate), LAMBDA updates :
  Bind(SelectSeq(updates.val.l, LAMBDA e : e.t # "null"), LAMBDA updatedEntities :
    Ok(updates.ctx, List(MapOutput(updatedEntities, args.model)))))))))

\* a delete that asks db for every match
delete_A3_DeletingAll(t, cfg, ctx, args) ==
  WithWhere(processWhere_A3(t, args.where), ctx, LAMBDA where :
  Then(db(t, cfg, ctx, [DbReq EXCEPT !.action = "delete",
                          !.tableName = args.model, !.where = where,
                          !.deleteAll = TRUE]), LAMBDA d :
    Ok(d.ctx, Undef)))

delete_A3(t, cfg, ctx, args) ==
  WithWhere(processWhere_A3(t, args.where), ctx, LAMBDA where :
  Then(db(t, cfg, ctx, [DbReq EXCEPT !.action = "delete",
                          !.tableName = args.model, !.where = where]), LAMBDA d :
    Ok(d.ctx, Undef)))

deleteMany_A3(t, cfg, ctx, args) ==
  WithWhere(processWhere_A3(t, args.where), ctx, LAMBDA where :
    db(t, cfg, ctx, [DbReq EXCEPT !.action = "delete",
                       !.tableName = args.model, !.where = where,
                       !.deleteAll = TRUE]))

count_A3(t, cfg, ctx, args) ==
  WithWhere(processWhere_A3(t, args.where), ctx, LAMBDA where :
    db(t, cfg, ctx, [DbReq EXCEPT !.action = "count",
                       !.tableName = args.model, !.where = where]))


----------------------------------------------------------------------------
(* The linked copy of triplitAdapter *)

Verb(a, t, cfg, ctx, verb, args) ==
  CASE verb = "create" ->
         IF a = A1 THEN create_A1(t, cfg, ctx, args)
         ELSE IF a = A2 THEN create_A2(t, cfg, ctx, args)
         ELSE create_A3(t, cfg, ctx, args)
    [] verb = "findOne" ->
         IF a = A1 THEN findOne_A1(t, cfg, ctx, args)
         ELSE IF a = A2 THEN findOne_A2(t, cfg, ctx, args)
         ELSE findOne_A3(t, cfg, ctx, args)
    [] verb = "findMany" ->
         IF a = A1 THEN findMany_A1(t, cfg, ctx, args)
         ELSE IF a = A2 THEN findMany_A2(t, cfg, ctx, args)
         ELSE findMany_A3(t, cfg, ctx, args)
    [] verb = "update" ->
         IF a = A1 THEN update_A1(t, cfg, ctx, args)
         ELSE IF a = A2 THEN update_A2(t, cfg, ctx, args)
         ELSE update_A3(t, cfg, ctx, args)
    [] verb = "updateMany" ->
         IF a = A1 THEN updateMany_A1(t, cfg, ctx, args)
         ELSE IF a = A2 THEN updateMany_A2(t, cfg, ctx, args)
         ELSE updateMany_A3(t, cfg, ctx, args)
    [] verb = "delete" ->
         IF a = A1 THEN delete_A1(t, cfg, ctx, args)
         ELSE IF a = A2 THEN delete_A2(t, cfg, ctx, args)
         ELSE delete_A3(t, cfg, ctx, args)
    [] verb = "deleteMany" ->
         IF a = A1 THEN deleteMany_A1(t, cfg, ctx, args)
         ELSE IF a = A2 THEN deleteMany_A2(t, cfg, ctx, args)
         ELSE deleteMany_A3(t, cfg, ctx, args)
    [] verb = "count" ->
         IF a = A1 THEN count_A1(t, cfg, ctx, args)
         ELSE IF a = A2 THEN count_A2(t, cfg, ctx, args)
         ELSE count_A3(t, cfg, ctx, args)

----------------------------------------------------------------------------
(* TriplitHandler (src/src/handler/triplit.ts) *)

\* the options of a handler function, with their defaults; where holds the
\* clauses [field, operator, value] as they are
HandlerOptions ==
  [tableName |-> "user", where |-> <<>>, limit |-> 0, single |-> FALSE,
   values |-> EmptyRec, update |-> EmptyRec, id |-> 0, deleteAll |-> FALSE,
   failAt |-> 0, echo |-> FALSE]

handler_query(ctx, options) ==
  Bind(ClientQuery(ctx, options.tableName), LAMBDA q0 :
  Bind(Where(q0.val, options.where), LAMBDA q1 :
  Bind(IF options.limit # 0 THEN Limit(q1, options.limit) ELSE q1, LAMBDA q2 :
    IF options.single THEN ClientFetchOne(q0.ctx, q2)
    ELSE ClientFetch(q0.ctx, q2))))

\* result.id is read without a test of result
handler_insert(ctx, options) ==
  Then(ClientInsert(ctx, options.tableName, options.values), LAMBDA res :
    IF ~Truthy(res.val) THEN Throw(res.ctx, TypeError)
    ELSE ClientFetchById(res.ctx, options.tableName, res.val.r.id))

handler_update(ctx, options) ==
  IF options.id # 0
  THEN Then(ClientUpdate(ctx, options.tableName, options.id, options.update), LAMBDA u :
         ClientFetchById(u.ctx, options.tableName, options.id))
  ELSE Then(handler_query(ctx, [options EXCEPT !.limit = 1, !.single = FALSE]),
            LAMBDA recordsToUpdate :
         IF Len(recordsToUpdate.val.l) = 0 THEN Ok(recordsToUpdate.ctx, Null)
         ELSE Bind(recordsToUpdate.val.l[1].id, LAMBDA recordId :
              Then(ClientUpdate(recordsToUpdate.ctx, options.tableName, recordId,
                                options.update), LAMBDA u :
                ClientFetchById(u.ctx, options.tableName, recordId))))

\* for (const record of recordsToDelete) await client.delete(...): one at a
\* time, and the first rejection ends the loop
RECURSIVE handler_deleteEach(_, _, _, _)
handler_deleteEach(ctx, tableName, records, k) ==
  IF k > Len(records) THEN Ok(ctx, Undef)
  ELSE Then(ClientDelete(ctx, tableName, records[k].id), LAMBDA d :
         handler_deleteEach(d.ctx, tableName, records, k + 1))

handler_delete_(ctx, options) ==
  IF options.id # 0
  THEN Then(ClientDelete(ctx, options.tableName, options.id), LAMBDA d :
         Ok(d.ctx, Bool(TRUE)))
  ELSE Then(handler_query(ctx, [options EXCEPT !.limit = 0, !.single = FALSE]),
            LAMBDA recordsToDelete :
       Bind(recordsToDelete.val.l, LAMBDA found :
         IF Len(found) = 0
         THEN Ok(recordsToDelete.ctx, IF options.deleteAll THEN Num(0) ELSE Bool(FALSE))
         ELSE IF options.deleteAll
         THEN Then(handler_deleteEach(recordsToDelete.ctx, options.tableName, found, 1),
                   LAMBDA d : Ok(d.ctx, Num(Len(found))))
         ELSE Then(ClientDelete(recordsToDelete.ctx, options.tableName, found[1].id),
                   LAMBDA d : Ok(d.ctx, Bool(TRUE)))))

handler_count(ctx, options) ==
  Then(handler_query(ctx, [options EXCEPT !.limit = 0, !.single = FALSE]),
       LAMBDA records :
    Ok(records.ctx, Num(Len(records.val.l))))

\* a dispatcher whose default case is the query
betterAuth_DefaultingToQuery(ctx, action, options) ==
  CASE action = "insert" -> handler_insert(ctx, options)
    [] action = "update" -> handler_update(ctx, options)
    [] action = "delete" -> handler_delete_(ctx, options)
    [] action = "count" -> handler_count(ctx, options)
    [] OTHER -> handler_query(ctx, options)

\* the catch only logs the error and throws it again
betterAuth(ctx, action, options) ==
  CASE action = "query" -> handler_query(ctx, options)
    [] action = "insert" -> handler_insert(ctx, options)
    [] action = "update" -> handler_update(ctx, options)
    [] action = "delete" -> handler_delete_(ctx, options)
    [] action = "count" -> handler_count(ctx, options)
    [] OTHER -> Throw(ctx, UnsupportedAction(action))

----------------------------------------------------------------------------
(* queryBuilder (src/unnamed/part_000) *)

\* what the comparison methods of the builder return, by method
BuilderOperator(method) ==
  CASE method = "eq" -> "="
    [] method = "neq" -> "!="
    [] method = "gt" -> ">"
    [] method = "gte" -> ">="
    [] method = "lt" -> "<"
    [] method = "lte" -> "<="
    [] method = "in" -> "in"
    [] method = "not_in" -> "not in"
    [] method = "contains" -> "contains"
    [] method = "notContains" -> "notContains"

\* builder.eq(field, value) and the other comparison methods
Compare(method, field, value) ==
  [t |-> "cond", field |-> field, operator |-> BuilderOperator(method),
   value |-> value]

\* builder.and(left, right), builder.or(left, right)
Compound(connector, left, right) ==
  [t |-> "compound", connector |-> connector, left |-> left, right |-> right]

\* convertQueryObject: a compound becomes a function that closes over its
\* converted operands, a simple condition the array [field, operator,
\* value]; anything else is returned as it is
RECURSIVE convertQueryObject(_)
convertQueryObject(queryObject) ==
  IF queryObject.t = "compound"
  THEN Bind(convertQueryObject(queryObject.left), LAMBDA convertedLeft :
       Bind(convertQueryObject(queryObject.right), LAMBDA convertedRight :
         [t |-> "function", connector |-> queryObject.connector,
          convertedLeft |-> convertedLeft, convertedRight |-> convertedRight]))
  ELSE IF queryObject.t = "cond" /\ queryObject.field # ""
  THEN [t |-> "triple", field |-> queryObject.field,
        operator |-> queryObject.operator, value |-> queryObject.value]
  ELSE queryObject

\* queryBuilder(builderFn): builderFn builds the object with the builder's
\* methods, and the object is converted
queryBuilder(built) == convertQueryObject(built)

\* or(filters) of @triplit/client: a group of filters
OrGroup(filters) == [t |-> "or", filters |-> filters]

\* the function a compound was converted to, called with a query: what it
\* hands to query.Where
HandedToWhere(fn) ==
  IF fn.connector = "AND" THEN [t |-> "array", filters |-> <<fn.convertedLeft, fn.convertedRight>>]
  ELSE OrGroup(<<fn.convertedLeft, fn.convertedRight>>)

----------------------------------------------------------------------------
(* The filter list as the objects the caller holds *)

\* The objects of a verb call: condition objects by reference, and arrays of
\* references.  Array 1 is the list the caller passed; ref is the object
\* made last, bound the array the verb's variable names, thrown whether the
\* validation threw.
Objects(where) ==
  [conds |-> where, arrays |-> <<[k \in 1..Len(where) |-> k]>>, ref |-> 0,
   bound |-> 1, thrown |-> FALSE]

\* the conditions an array holds
Deref(h, a) == [k \in 1..Len(h.arrays[a]) |-> h.conds[h.arrays[a][k]]]

\* [...where]: a new array of the same condition objects
Spread(h, a) ==
  [h EXCEPT !.arrays = Append(@, h.arrays[a]), !.bound = Len(h.arrays) + 1]

\* a clone that is the condition object itself
CloneCondition_Sharing(h, c) == [h EXCEPT !.ref = c]

\* { ...condition }: a new object with the properties of the condition
CloneCondition(h, c) ==
  [h EXCEPT !.conds = Append(@, h.conds[c]), !.ref = Len(h.conds) + 1]

\* newCondition.operator = ...: the write the mapping makes on the object
\* it holds, when it makes one
SetOperator(t, h) ==
  Bind(transformWhereOperators(t, <<h.conds[h.ref]>>)[1].operator, LAMBDA mapped :
    IF mapped = h.conds[h.ref].operator THEN h
    ELSE [h EXCEPT !.conds[h.ref].operator = mapped])

\* where.map(condition => { const newCondition = { ...condition }; ...;
\* return newCondition }), from the k-th element on: a new array of the
\* objects the callback returned
RECURSIVE MapConditions(_, _, _, _, _)
MapConditions(t, h, a, k, out) ==
  IF k > Len(h.arrays[a])
  THEN [h EXCEPT !.arrays = Append(@, out), !.bound = Len(h.arrays) + 1]
  ELSE Bind(SetOperator(t, CloneCondition(h, h.arrays[a][k])), LAMBDA written :
         MapConditions(t, written, a, k + 1, Append(out, written.ref)))

\* filterInvalidOperators on the array the verb holds: copy T1 makes a
\* filtered array and binds its own parameter to it, copy T2 reads the
\* conditions and throws
Validate(t, h) ==
  Bind(filterInvalidOperators(t, Deref(h, h.bound)), LAMBDA checked :
    IF t = T1
    THEN [h EXCEPT !.arrays = Append(@,
            SelectSeq(h.arrays[h.bound],
              LAMBDA c : OrEq(h.conds[c].operator) \in supportedOperators_T1))]
    ELSE [h EXCEPT !.thrown = checked.t = "err"])

\* the first lines of every filter-taking verb, on the objects
processWhere_Objects(a, t, h) ==
  CASE a = A1 ->
         Bind(Validate(t, h), LAMBDA checked :
           IF checked.thrown THEN checked
           ELSE MapConditions(t, checked, checked.bound, 1, <<>>))
    [] a = A2 ->
         Bind(Validate(t, Spread(h, h.bound)), LAMBDA checked :
           IF checked.thrown THEN checked
           ELSE MapConditions(t, checked, checked.bound, 1, <<>>))
    [] a = A3 ->
         Bind(Spread(h, h.bound), LAMBDA cloned :
           Validate(t, MapConditions(t, cloned, cloned.bound, 1, <<>>)))

----------------------------------------------------------------------------
(* The inputs of the verbs *)

Cond(field, operator, value, connector) ==
  [field |-> field, operator |-> operator, value |-> value,
   connector |-> connector]

\* every operator a caller may write, Undefined for an omitted one
CallerOperators ==
  {Undefined, "=", "==", "!=", ">", ">=", "<", "<=", "in", "not in", "not_in",
   "notIn", "contains", "not contains", "notContains", "equals", "notEquals",
   "like"}

ArrayOperators == {"in", "not in", "not_in", "notIn"}

ValueFor(op, s) == IF op \in ArrayOperators THEN Array(s) ELSE Scalar(s)

OperatorConds == {Cond("email", op, ValueFor(op, "a"), Undefined) : op \in CallerOperators}

OtherConds ==
  {Cond("email", "=", Scalar("ab"), Undefined),
   Cond("email", "!=", Scalar("ab"), "OR")}

WhereLists ==
  {<<>>} \cup {<<c>> : c \in OperatorConds \cup OtherConds}
         \cup {<<Cond("email", "!=", Scalar("ab"), "OR"), Cond("email", op, Scalar("a"), "AND")>> : op \in {">=", "like"}}

\* a timestamp a caller supplies: a raw number
Supplied == Raw(9)

CreateData ==
  {[email |-> "a"],
   [email |-> "ab", createdAt |-> Supplied, updatedAt |-> Supplied]}

Patches == {[name |-> "n"], [name |-> "n", updatedAt |-> Supplied]}

\* a patch together with what the store's update resolves to: the record
\* (TRUE) or nothing (FALSE)
UpdateInputs ==
  {[update |-> u, echo |-> FALSE] : u \in Patches}
    \cup {[update |-> [name |-> "n"], echo |-> TRUE]}

Selections == {{}, {"email", "name"}}

Limits == {0, 1}

NoArgs ==
  [model |-> "user", where |-> <<>>, select |-> {}, data |-> EmptyRec,
   update |-> EmptyRec, limit |-> 0, offset |-> 0, failAt |-> 0, echo |-> FALSE]

----------------------------------------------------------------------------
(* The state machine *)

\* the verbs that take a filter list
FilterVerbs ==
  {"findOne", "findMany", "update", "updateMany", "delete", "deleteMany", "count"}

\* the callers that make their calls concurrently, and a caller with no call
Callers == {1, 2}
Idle == [pc |-> "idle"]
NoProcs == [p \in Callers |-> Idle]

NoCall == [verb |-> "none"]
NoResult == [ok |-> TRUE, val |-> Undef]
EmptyStore == [recs |-> [c \in Colls |-> EmptyRec], nextId |-> 1]

Init ==
  /\ adapter \in Adapters
  /\ transform \in Transforms
  /\ config \in [customName : BOOLEAN]
  /\ store = EmptyStore
  /\ now = 1
  /\ pc = "idle"
  /\ call = NoCall
  /\ calls = <<>>
  /\ result = NoResult
  /\ pre = EmptyStore
  /\ issued = 0
  /\ inflight = <<>>
  /\ procs = NoProcs

\* One verb call, from the call to the settling of its promise
Run(verb, args) ==
  \E out \in {Verb(adapter, transform, config, Ctx(store, now, args), verb, args)} :
    /\ pc' = "done"
    /\ call' = [verb |-> verb, args |-> args,
                objects |-> IF verb \in FilterVerbs
                            THEN processWhere_Objects(adapter, transform,
                                                      Objects(args.where))
                            ELSE Objects(args.where)]
    /\ calls' = out.ctx.calls
    /\ result' = [ok |-> out.ok, val |-> out.val]
    /\ pre' = store
    /\ store' = out.ctx.st
    /\ issued' = Len(out.ctx.calls)
    /\ inflight' = out.ctx.pending
    /\ UNCHANGED <<adapter, transform, config, now, procs>>

Create ==
  /\ pc = "idle"
  /\ store.nextId <= MaxRecords
  /\ \E d \in CreateData, s \in Selections :
       Run("create", [NoArgs EXCEPT !.data = d, !.select = s])

FindOne ==
  /\ pc = "idle"
  /\ \E w \in WhereLists, s \in Selections :
       Run("findOne", [NoArgs EXCEPT !.where = w, !.select = s])

FindMany ==
  /\ pc = "idle"
  /\ \E w \in WhereLists, l \in Limits :
       Run("findMany", [NoArgs EXCEPT !.where = w, !.limit = l])

Update ==
  /\ pc = "idle"
  /\ \E w \in WhereLists, u \in UpdateInputs :
       Run("update", [NoArgs EXCEPT !.where = w, !.update = u.update, !.echo = u.echo])

UpdateMany ==
  /\ pc = "idle"
  /\ \E w \in WhereLists, u \in UpdateInputs :
       Run("updateMany", [NoArgs EXCEPT !.where = w, !.update = u.update, !.echo = u.echo])

Delete ==
  /\ pc = "idle"
  /\ \E w \in WhereLists : Run("delete", [NoArgs EXCEPT !.where = w])

DeleteMany ==
  /\ pc = "idle"
  /\ \E w \in WhereLists : Run("deleteMany", [NoArgs EXCEPT !.where = w])

Count ==
  /\ pc = "idle"
  /\ \E w \in WhereLists : Run("count", [NoArgs EXCEPT !.where = w])

\* the caller takes the outcome and makes its next call once the store has
\* answered every call; nothing of the call is kept
Settle ==
  /\ pc = "done"
  /\ inflight = <<>>
  /\ pc' = "idle"
  /\ call' = NoCall
  /\ calls' = <<>>
  /\ result' = NoResult
  /\ pre' = store
  /\ issued' = 0
  /\ UNCHANGED <<adapter, transform, config, store, now, inflight, procs>>

\* the clock advances between calls
Tick ==
  /\ pc = "idle"
  /\ now < MaxClock
  /\ now' = now + 1
  /\ UNCHANGED <<adapter, transform, config, store, pc, call, calls, result, pre,
                 issued, inflight, procs>>

Next ==
  \/ Create
  \/ FindOne
  \/ FindMany
  \/ Update
  \/ UpdateMany
  \/ Delete
  \/ DeleteMany
  \/ Count
  \/ Settle
  \/ Tick

Spec == Init /\ [][Next]_vars


----------------------------------------------------------------------------
(* The adapter and the handler over a store that may reject a call *)

\* the number of the client call of a verb call that the store rejects
\* ranges over 0 (none) .. MaxFailAt
MaxFailAt == 5
\* the largest offset a findMany is given
MaxOffset == 1

FailAts == 0..MaxFailAt
Offsets == 0..MaxOffset

\* filters every copy takes as they are
PlainWhereLists == {<<>>, <<Cond("email", "=", Scalar("a"), Undefined)>>}

\* the same filters as the clauses a handler function takes
HandlerWhereLists == {Clauses_T2(w) : w \in PlainWhereLists}

\* a createdAt that is supplied and falsy: the number 0
FalsyStamp == Raw(0)

FaultyCreateData ==
  CreateData \cup {[email |-> "a", createdAt |-> FalsyStamp]}

FaultyCreate ==
  /\ pc = "idle"
  /\ store.nextId <= MaxRecords
  /\ \E d \in FaultyCreateData, s \in Selections, f \in FailAts :
       Run("create", [NoArgs EXCEPT !.data = d, !.select = s, !.failAt = f])

FaultyFindOne ==
  /\ pc = "idle"
  /\ \E w \in PlainWhereLists, s \in Selections, f \in FailAts :
       Run("findOne", [NoArgs EXCEPT !.where = w, !.select = s, !.failAt = f])

FaultyFindMany ==
  /\ pc = "idle"
  /\ \E w \in PlainWhereLists, l \in Limits, o \in Offsets, f \in FailAts :
       Run("findMany", [NoArgs EXCEPT !.where = w, !.limit = l, !.offset = o,
                                       !.failAt = f])

FaultyUpdate ==
  /\ pc = "idle"
  /\ \E w \in PlainWhereLists, u \in UpdateInputs, f \in FailAts :
       Run("update", [NoArgs EXCEPT !.where = w, !.update = u.update,
                                     !.echo = u.echo, !.failAt = f])

FaultyUpdateMany ==
  /\ pc = "idle"
  /\ \E w \in PlainWhereLists, u \in UpdateInputs, f \in FailAts :
       Run("updateMany", [NoArgs EXCEPT !.where = w, !.update = u.update,
                                         !.echo = u.echo, !.failAt = f])

FaultyDelete ==
  /\ pc = "idle"
  /\ \E w \in PlainWhereLists, f \in FailAts :
       Run("delete", [NoArgs EXCEPT !.where = w, !.failAt = f])

FaultyDeleteMany ==
  /\ pc = "idle"
  /\ \E w \in PlainWhereLists, f \in FailAts :
       Run("deleteMany", [NoArgs EXCEPT !.where = w, !.failAt = f])

FaultyCount ==
  /\ pc = "idle"
  /\ \E w \in PlainWhereLists, f \in FailAts :
       Run("count", [NoArgs EXCEPT !.where = w, !.failAt = f])

\* One call of the handler, from the call to the settling of its promise
RunHandler(action, options) ==
  \E out \in {betterAuth(Ctx(store, now, options), action, options)} :
    /\ pc' = "done"
    /\ call' = [verb |-> "handler", action |-> action, args |-> options]
    /\ calls' = out.ctx.calls
    /\ result' = [ok |-> out.ok, val |-> out.val]
    /\ pre' = store
    /\ store' = out.ctx.st
    /\ issued' = Len(out.ctx.calls)
    /\ inflight' = out.ctx.pending
    /\ UNCHANGED <<adapter, transform, config, now, procs>>

HandlerInsert ==
  /\ pc = "idle"
  /\ store.nextId <= MaxRecords
  /\ \E d \in CreateData, f \in FailAts :
       RunHandler("insert", [HandlerOptions EXCEPT !.values = d, !.failAt = f])

HandlerQuery ==
  /\ pc = "idle"
  /\ \E w \in HandlerWhereLists, l \in Limits, one \in BOOLEAN, f \in FailAts :
       RunHandler("query", [HandlerOptions EXCEPT !.where = w, !.limit = l,
                                                   !.single = one, !.failAt = f])

HandlerUpdate ==
  /\ pc = "idle"
  /\ \E w \in HandlerWhereLists, i \in 0..MaxRecords, f \in FailAts :
       RunHandler("update", [HandlerOptions EXCEPT !.where = w, !.id = i,
                               !.update = [name |-> "n"], !.failAt = f])

HandlerDelete ==
  /\ pc = "idle"
  /\ \E w \in HandlerWhereLists, i \in 0..MaxRecords, all \in BOOLEAN, f \in FailAts :
       RunHandler("delete", [HandlerOptions EXCEPT !.where = w, !.id = i,
                               !.deleteAll = all, !.failAt = f])

HandlerCount ==
  /\ pc = "idle"
  /\ \E w \in HandlerWhereLists, f \in FailAts :
       RunHandler("count", [HandlerOptions EXCEPT !.where = w, !.failAt = f])

\* the store rejects no call, or the first
FirstFailAts == {0, 1}

\* actions the handler's dispatcher has no case for; queryOne is one of db
OtherHandlerActions == {"queryOne", "upsert", "Query", Undefined}
\* actions db is asked for directly: count, and some it has no case for
DbActions == {"count", "upsert", "Query", Undefined}

HandlerOther ==
  /\ pc = "idle"
  /\ \E a \in OtherHandlerActions, w \in HandlerWhereLists, f \in FirstFailAts :
       RunHandler(a, [HandlerOptions EXCEPT !.where = w, !.failAt = f])

\* One call of the db helper createTransform returns, made by a caller of
\* its own
Db ==
  /\ pc = "idle"
  /\ \E a \in DbActions, w \in PlainWhereLists, f \in FirstFailAts :
       \E args \in {[NoArgs EXCEPT !.where = w, !.failAt = f]} :
       \E out \in {db(transform, config, Ctx(store, now, args),
                      [DbReq EXCEPT !.action = a, !.tableName = args.model,
                                    !.where = w])} :
         /\ pc' = "done"
         /\ call' = [verb |-> "db", action |-> a, args |-> args]
         /\ calls' = out.ctx.calls
         /\ result' = [ok |-> out.ok, val |-> out.val]
         /\ pre' = store
         /\ store' = out.ctx.st
         /\ issued' = Len(out.ctx.calls)
         /\ inflight' = out.ctx.pending
         /\ UNCHANGED <<adapter, transform, config, now, procs>>

\* the number the next client call takes
NextIo == Cardinality({k \in 1..Len(calls) : calls[k].io # 0}) + 1

\* The store answers the oldest running call after the promise has settled.
\* The db call of copy T2 that awaited an update then goes on to its
\* fetchById.
Complete ==
  /\ pc = "done"
  /\ inflight # <<>>
  /\ \E task \in {Head(inflight)} :
       /\ store' = Applied(store, task)
       /\ IF task.refetch
          THEN /\ calls' = Append(calls,
                     [ClientCall("fetchById", task.coll, <<>>, task.id, EmptyRec)
                        EXCEPT !.io = NextIo])
               /\ inflight' = Append(Tail(inflight),
                     Task("fetchById", task.coll, task.id, EmptyRec, FALSE))
          ELSE /\ calls' = calls
               /\ inflight' = Tail(inflight)
  /\ UNCHANGED <<adapter, transform, config, now, pc, call, result, pre, issued,
                 procs>>

NextIO ==
  \/ FaultyCreate
  \/ FaultyFindOne
  \/ FaultyFindMany
  \/ FaultyUpdate
  \/ FaultyUpdateMany
  \/ FaultyDelete
  \/ FaultyDeleteMany
  \/ FaultyCount
  \/ HandlerInsert
  \/ HandlerQuery
  \/ HandlerUpdate
  \/ HandlerDelete
  \/ HandlerCount
  \/ HandlerOther
  \/ Db
  \/ Complete
  \/ Settle

\* the clock stays at its first reading here: every stamp taken is Date(now)
SpecIO == Init /\ [][NextIO]_vars

----------------------------------------------------------------------------
(* transformInput under configurations that hold transformers *)

InputModels == {"user", "session"}
Operations == {"create", "update"}

\* the fields a payload may carry, and what each may hold
PayloadFields == {"email", "id", "uid"}
PayloadValues == {"A", "", NullValue, Undefined}

Payloads ==
  UNION {[fs -> PayloadValues] : fs \in SUBSET PayloadFields}

Entry(field, fn) == [field |-> field, fn |-> fn]

\* config.field_options: absent, or transformers per model, each an object
\* whose entries are in the order they were written
FieldOptions ==
  {EmptyRec,
   [field_options |-> [transformers |->
      [user |-> <<Entry("email", "lower")>>,
       session |-> <<Entry("email", "trim"), Entry("uid", "trim")>>]]],
   [field_options |-> [transformers |->
      [user |-> <<Entry("id", "blank"), Entry("email", "lower")>>]]],
   [field_options |-> [transformers |->
      [user |-> <<Entry("id", "pad"), Entry("uid", "pad")>>]]]}

\* config.id_options: absent, or a field name, a transform, or both
IdOptions ==
  {EmptyRec,
   [id_options |-> [transform |-> "hash"]],
   [id_options |-> [field_name |-> "uid", transform |-> "hash"]],
   [id_options |-> [field_name |-> "", transform |-> "hash"]],
   [id_options |-> [field_name |-> "uid"]]}

InputConfigs ==
  {Merge(Merge([customName |-> FALSE], fo), io) : fo \in FieldOptions, io \in IdOptions}

InitInput ==
  /\ adapter \in Adapters
  /\ transform \in Transforms
  /\ config \in InputConfigs
  /\ store = EmptyStore
  /\ now = 1
  /\ pc = "idle"
  /\ call = NoCall
  /\ calls = <<>>
  /\ result = NoResult
  /\ pre = EmptyStore
  /\ issued = 0
  /\ inflight = <<>>
  /\ procs = NoProcs

\* transformInput(data, model, operation), as create and update call it
\* before they hand the payload to db
TransformInput ==
  /\ pc = "idle"
  /\ \E d \in Payloads, m \in InputModels, o \in Operations :
       /\ pc' = "done"
       /\ call' = [verb |-> "transformInput",
                   args |-> [data |-> d, model |-> m, operation |-> o]]
       /\ result' = [ok |-> TRUE, val |-> Rec(transformInput(config, d, m, o, now))]
  /\ UNCHANGED <<adapter, transform, config, store, now, calls, pre, issued,
                 inflight, procs>>

NextInput ==
  \/ TransformInput
  \/ Settle

SpecInput == InitInput /\ [][NextInput]_vars

----------------------------------------------------------------------------
(* Verb calls of concurrent callers, one store call at a time *)

\* create, and the verbs that find by filter and then mutate by id
RaceVerbs == {"create", "update", "delete", "deleteMany"}

\* patches: one leaves the filtered field alone, one overwrites it
RacePatches == {[name |-> "n"], [email |-> "ab"]}

\* what a call of a verb is given
RaceArgs(v) ==
  CASE v = "create" -> {[NoArgs EXCEPT !.data = [email |-> "a"]]}
    [] v = "update" ->
         {[NoArgs EXCEPT !.where = w, !.update = u] :
            w \in PlainWhereLists, u \in RacePatches}
    [] OTHER -> {[NoArgs EXCEPT !.where = w] : w \in PlainWhereLists}

\* the store calls a verb call makes once its find, if it has one, has been
\* answered: they name the ids the find gave, whatever the store holds by
\* then
TasksOf(cs) ==
  Bind(SelectSeq(cs, LAMBDA c : c.op \in {"insert", "update", "delete", "fetchById"}),
       LAMBDA rest :
    [k \in 1..Len(rest) |->
       Task(rest[k].op, rest[k].coll, rest[k].id, rest[k].values, FALSE)])

\* the creates that have not reached the store
Creating == {p \in Callers : procs[p].pc = "running" /\ procs[p].verb = "create"}

\* A caller calls a verb: the verb runs up to the answer of its find.  What
\* it returns if the store stays as it is is val.
Begin(p) ==
  /\ procs[p] = Idle
  /\ \E v \in RaceVerbs :
     \E args \in RaceArgs(v) :
     \E out \in {Verb(adapter, transform, config, Ctx(store, now, args), v, args)} :
     \E tasks \in {TasksOf(out.ctx.calls)} :
       /\ v = "create" => store.nextId + Cardinality(Creating) <= MaxRecords
       /\ procs' = [procs EXCEPT ![p] =
                      [pc |-> IF tasks = <<>> THEN "done" ELSE "running",
                       verb |-> v, args |-> args, tasks |-> tasks, ok |-> TRUE,
                       val |-> out.val, mutated |-> <<>>, removed |-> 0]]
  /\ UNCHANGED <<adapter, transform, config, store, now, pc, call, calls, result,
                 pre, issued, inflight>>

\* the store once it has answered the call: an insert takes the next id
StoreAfter(st, task) ==
  IF task.op = "insert"
  THEN [st EXCEPT !.recs[task.coll] =
                    With(@, st.nextId, Merge(task.values, [id |-> st.nextId])),
                  !.nextId = @ + 1]
  ELSE Applied(st, task)

\* The store answers the next call of a running verb call.  An update of an
\* id the collection no longer holds rejects, and the verb call with it; a
\* delete of such an id resolves; fetchById gives what the store holds now,
\* and after an insert it asks for the id the insert was given.
Step(p) ==
  /\ procs[p].pc = "running"
  /\ \E task \in {Head(procs[p].tasks)} :
     \E present \in {task.id \in DOMAIN store.recs[task.coll]} :
       /\ store' = StoreAfter(store, task)
       /\ procs' = [procs EXCEPT ![p] =
            IF task.op = "update" /\ ~present
            THEN [@ EXCEPT !.pc = "done", !.tasks = <<>>, !.ok = FALSE,
                           !.val = StoreError(0)]
            ELSE [@ EXCEPT
                    !.pc = IF Len(procs[p].tasks) = 1 THEN "done" ELSE "running",
                    !.tasks =
                      IF task.op = "insert"
                      THEN [k \in 1..(Len(@) - 1) |-> [@[k + 1] EXCEPT !.id = store.nextId]]
                      ELSE Tail(@),
                    !.mutated =
                      IF task.op \in {"update", "delete"} /\ present
                      THEN Append(@, [id |-> task.id,
                                      rec |-> store.recs[task.coll][task.id]])
                      ELSE @,
                    !.removed = IF task.op = "delete" /\ present THEN @ + 1 ELSE @,
                    !.val =
                      CASE task.op = "fetchById" ->
                             IF present
                             THEN transformOutput(Rec(store.recs[task.coll][task.id]),
                                                  procs[p].args.model)
                             ELSE Null
                        [] task.op = "insert" ->
                             transformOutput(
                               Rec(Merge(task.values, [id |-> store.nextId])),
                               procs[p].args.model)
                        [] OTHER -> @]]
  /\ UNCHANGED <<adapter, transform, config, now, pc, call, calls, result, pre,
                 issued, inflight>>

\* the callers take the outcomes of their calls
Return ==
  /\ \A p \in Callers : procs[p].pc # "running"
  /\ \E p \in Callers : procs[p].pc = "done"
  /\ procs' = NoProcs
  /\ UNCHANGED <<adapter, transform, config, store, now, pc, call, calls, result,
                 pre, issued, inflight>>

NextRace ==
  \/ \E p \in Callers : Begin(p)
  \/ \E p \in Callers : Step(p)
  \/ Return

SpecRace == Init /\ [][NextRace]_vars

----------------------------------------------------------------------------
(* queryBuilder on the objects a builder function can build *)

ComparisonMethods ==
  {"eq", "neq", "gt", "gte", "lt", "lte", "in", "not_in", "contains", "notContains"}

\* every comparison method on one field
SimpleConditions ==
  {Compare(m, "email", IF m \in {"in", "not_in"} THEN Array("a") ELSE Scalar("a")) :
     m \in ComparisonMethods}

\* the conditions the and/or trees are built of
Leaves == {Compare("eq", "email", Scalar("a")), Compare("neq", "email", Scalar("ab"))}

\* and/or of two conditions, and and/or with such a compound as an operand
FlatTrees == {Compound(c, l, r) : c \in {"AND", "OR"}, l \in Leaves, r \in Leaves}
NestedTrees ==
  {Compound(c, l, r) : c \in {"AND", "OR"}, l \in FlatTrees, r \in Leaves}
    \cup {Compound(c, l, r) : c \in {"AND", "OR"}, l \in Leaves, r \in FlatTrees}

Built == SimpleConditions \cup FlatTrees \cup NestedTrees

\* queryBuilder(builderFn), builderFn returning one of the objects
QueryBuilder ==
  /\ pc = "idle"
  /\ \E built \in Built :
       /\ pc' = "done"
       /\ call' = [verb |-> "queryBuilder", args |-> [built |-> built]]
       /\ result' = [ok |-> TRUE, val |-> queryBuilder(built)]
  /\ UNCHANGED <<adapter, transform, config, store, now, calls, pre, issued,
                 inflight, procs>>

\* the caller calls the function queryBuilder returned with client.query(...)
CallReturned ==
  /\ pc = "done"
  /\ call.verb = "queryBuilder"
  /\ result.val.t = "function"
  /\ calls = <<>>
  /\ calls' = <<[op |-> "Where", coll |-> "user", handed |-> HandedToWhere(result.val)]>>
  /\ UNCHANGED <<adapter, transform, config, store, now, pc, call, result, pre,
                 issued, inflight, procs>>

NextBuilder ==
  \/ QueryBuilder
  \/ CallReturned
  \/ Settle

SpecBuilder == Init /\ [][NextBuilder]_vars

----------------------------------------------------------------------------
(* What the properties below speak of *)

\* a verb has run and its promise has settled
Done(verbs) == pc = "done" /\ call.verb \in verbs

\* the named operators of the call that are still unsupported once mapped
Offending(where) ==
  {where[k].operator : k \in {j \in 1..Len(where) :
      /\ where[j].operator # Undefined
      /\ transformWhereOperators(transform, <<where[j]>>)[1].operator \notin StoreOperators}}

\* the Where clauses the store was handed during the call
StoreClauses ==
  UNION {{calls[k].where[j] : j \in 1..Len(calls[k].where)} : k \in 1..Len(calls)}

\* the call was refused for an operator
Rejected == ~result.ok /\ result.val.name = "UnsupportedOperator"

\* the store calls of the call that carry a Where
Filtered == {k \in 1..Len(calls) : Len(calls[k].where) > 0}


----------------------------------------------------------------------------
(* C1 *)

\* C1: a filter-taking verb whose filter names an operator that is outside
\* the store's set once mapped fails with an error naming that operator and
\* issues no store call at all.
C1_UnsupportedOperatorRejected ==
  (Done(FilterVerbs) /\ Offending(call.args.where) # {})
    => /\ ~result.ok
       /\ result.val.name = "UnsupportedOperator"
       /\ result.val.op \in Offending(call.args.where)
       /\ calls = <<>>

----------------------------------------------------------------------------
(* C2 *)

\* C2: with customCollectionName configured, every store call of every verb
\* targets the mapped collection, never the unmapped model name.
C2_CallsTargetMappedCollection ==
  (pc = "done" /\ config.customName)
    => \A k \in 1..Len(calls) : calls[k].coll = CustomName(call.args.model)

----------------------------------------------------------------------------
(* C3 *)

\* count and findMany without a limit, on the store as it is
CountOf(where) ==
  Verb(adapter, transform, config, Ctx(store, now, NoArgs), "count",
       [NoArgs EXCEPT !.where = where])
FindManyOf(where) ==
  Verb(adapter, transform, config, Ctx(store, now, NoArgs), "findMany",
       [NoArgs EXCEPT !.where = where])

\* C3: on every store state and for every filter list, count returns the
\* length of what findMany without a limit returns.
C3_CountIsFindManyLength ==
  pc = "idle" =>
    \A w \in WhereLists :
      \A counted \in {CountOf(w)}, found \in {FindManyOf(w)} :
        (counted.ok /\ found.ok) => counted.val = Num(Len(found.val.l))

----------------------------------------------------------------------------
(* C4 *)

\* C4: every condition of every Where clause handed to the store carries an
\* operator of the store's set.
C4_StoreOperatorsOnly ==
  \A cl \in StoreClauses : cl[2] \in StoreOperators

----------------------------------------------------------------------------
(* C5 *)

OmittedCond == Cond("email", Undefined, Scalar("a"), Undefined)

\* C5: a condition whose operator is omitted is accepted and reaches the
\* store as the equality condition on the same field and value.
C5_OmittedOperatorIsEquality ==
  (Done(FilterVerbs) /\ call.args.where = <<OmittedCond>>)
    => /\ ~Rejected
       /\ Filtered # {}
       /\ \A k \in Filtered : calls[k].where = <<<<"email", "=", Scalar("a")>>>>


----------------------------------------------------------------------------
(* C6 *)

\* the operators the translation table names, and what it makes of each
TableOperators ==
  {"equals", "notEquals", "notIn", "notContains", "in", "contains",
   ">", ">=", "<", "<="}

TableOperator(op) ==
  CASE op = "equals" -> "="
    [] op = "notEquals" -> "!="
    [] op = "notIn" -> "not in"
    [] op = "notContains" -> "not contains"
    [] OTHER -> op

\* C6: a condition with an operator of the table is accepted and reaches the
\* store with the operator the table gives for it.
C6_TableTranslation ==
  (/\ Done(FilterVerbs)
   /\ Len(call.args.where) = 1
   /\ call.args.where[1].operator \in TableOperators)
    => LET c == call.args.where[1]
       IN  /\ ~Rejected
           /\ Filtered # {}
           /\ \A k \in Filtered :
                calls[k].where = <<<<c.field, TableOperator(c.operator), c.value>>>>

----------------------------------------------------------------------------
(* C7 *)

\* a filter list every copy takes as it is: store operators, all conjoined
Plain(where) ==
  \A k \in 1..Len(where) :
    where[k].operator \in StoreOperators /\ where[k].connector # "OR"

\* the ids of the records of the model that match a plain filter list
Matching(st, cfg, model, where) ==
  LET coll == st.recs[getCollectionName(cfg, model)]
  IN  {i \in DOMAIN coll :
         \A k \in 1..Len(where) :
           Sat(coll[i], <<where[k].field, where[k].operator, where[k].value>>)}

\* delete by filter, single form, on the store as it was before the call
DeleteByFilter(where) ==
  db(transform, config, Ctx(pre, now, NoArgs),
     [DbReq EXCEPT !.action = "delete", !.tableName = "user",
        !.where = where, !.deleteAll = FALSE])

\* C7: when nothing matches and the store fails no call, findOne and update
\* resolve to null, deleteMany to 0, delete by filter to false, and none of
\* them throws, with or without a selection.
C7_NoMatchNeverThrows ==
  (/\ Done({"findOne", "update", "delete", "deleteMany"})
   /\ Plain(call.args.where)
   /\ Matching(pre, config, call.args.model, call.args.where) = {})
    => /\ result.ok
       /\ call.verb \in {"findOne", "update"} => result.val = Null
       /\ call.verb = "deleteMany" => result.val = Num(0)
       /\ call.verb = "delete" =>
            \A deleted \in {DeleteByFilter(call.args.where)} :
              deleted.ok /\ deleted.val = Bool(FALSE)

----------------------------------------------------------------------------
(* C8 *)

\* C8: deleteMany returns the number of records that matched, and a findMany
\* with the same filters right after it returns the empty sequence.
C8_DeleteManyThenFindManyEmpty ==
  (Done({"deleteMany"}) /\ Plain(call.args.where) /\ result.ok)
    => /\ result.val =
            Num(Cardinality(Matching(pre, config, call.args.model, call.args.where)))
       /\ \A found \in {FindManyOf(call.args.where)} :
            found.ok /\ found.val = List(<<>>)


----------------------------------------------------------------------------
(* C9 *)

\* the store's update calls of the call
UpdateCalls == {k \in 1..Len(calls) : calls[k].op = "update"}

\* C9: after a successful update the stored updatedAt of the record is
\* strictly greater than it was before, whatever the patch carries and also
\* when the clock has not moved.
C9_UpdatedAtStrictlyGreater ==
  (Done({"update", "updateMany"}) /\ result.ok)
    => \A k \in UpdateCalls :
         store.recs[calls[k].coll][calls[k].id].updatedAt.ms
           > pre.recs[calls[k].coll][calls[k].id].updatedAt.ms

\* C9, as the code has it: after a successful update the stored updatedAt of
\* the record is the clock's reading at the call, whatever updatedAt the
\* patch carries.
C9_UpdatedAtIsClockReading ==
  (Done({"update", "updateMany"}) /\ result.ok)
    => \A k \in UpdateCalls :
         store.recs[calls[k].coll][calls[k].id].updatedAt = Date(now)

\* an update went through whose patch carried its own updatedAt
C9_Witness ==
  /\ Done({"update", "updateMany"})
  /\ result.ok
  /\ UpdateCalls # {}
  /\ Has(call.args.update, "updatedAt")

----------------------------------------------------------------------------
(* C10 *)

FindOneOf(where) ==
  Verb(adapter, transform, config, Ctx(store, now, NoArgs), "findOne",
       [NoArgs EXCEPT !.where = where])

\* C10: after a create whose data has an email and no timestamps, findOne
\* with the filter email "equals" that email returns a record with that
\* email whose createdAt and updatedAt are set and are dates.
C10_CreateThenFindOneEquals ==
  (/\ Done({"create"})
   /\ result.ok
   /\ ~Has(call.args.data, "createdAt")
   /\ ~Has(call.args.data, "updatedAt"))
    => \A found \in {FindOneOf(<<Cond("email", "equals",
                                     Scalar(call.args.data.email), Undefined)>>)} :
         /\ found.ok
         /\ found.val.t = "rec"
         /\ found.val.r.email = call.args.data.email
         /\ Has(found.val.r, "createdAt") /\ found.val.r.createdAt.isDate
         /\ Has(found.val.r, "updatedAt") /\ found.val.r.updatedAt.isDate

----------------------------------------------------------------------------
(* C11 *)

\* the query of the k-th store call, and what it selects from the store as
\* it was when the verb call started
QueryOf(k) ==
  [t |-> "query", coll |-> calls[k].coll, where |-> calls[k].where,
   limit |-> calls[k].limit]
FetchedBy(k) == Select(pre, QueryOf(k))

\* the store records a create or a findOne projects: the inserted record,
\* or the first record the fetchOne of the call selected
Underlying ==
  IF call.verb = "create"
  THEN {store.recs[calls[k].coll][pre.nextId] :
          k \in {j \in 1..Len(calls) : calls[j].op = "insert"}}
  ELSE {FetchedBy(k)[1] :
          k \in {j \in 1..Len(calls) :
                   calls[j].op = "fetchOne" /\ Len(FetchedBy(j)) > 0}}

\* the keys of a returned object, those holding undefined included
Keys(v) == (DOMAIN v.r) \cup v.undef

\* C11: create and findOne with a selection return a record whose keys are
\* exactly the selected fields present on the store record; a selected field
\* the store record lacks is no key of the result, and the call succeeds.
C11_SelectionKeysArePresentFields ==
  (/\ Done({"create", "findOne"})
   /\ call.args.select # {}
   /\ \A k \in 1..Len(calls) : ~BadQuery(QueryOf(k)))
    => \A under \in Underlying :
         /\ result.ok
         /\ result.val.t = "rec"
         /\ Keys(result.val) = call.args.select \cap DOMAIN under

----------------------------------------------------------------------------
(* C12 *)

BatchVerbs == {"updateMany", "deleteMany"}

\* the store calls a batch verb makes for one record each
PerRecord ==
  {k \in 1..Len(calls) : calls[k].op \in {"update", "delete", "fetchById"}}

\* the store call that rejected, and whether it was one made for a record
FailedCalls == {k \in 1..Len(calls) : calls[k].io # 0 /\ calls[k].io = call.args.failAt}
PerRecordCallRejected == FailedCalls \cap PerRecord # {}

\* the store has answered the k-th call
Answered(k) ==
  /\ k \notin FailedCalls
  /\ \A j \in 1..Len(inflight) :
       ~(inflight[j].op = calls[k].op /\ inflight[j].id = calls[k].id)

\* the store shows what the mutation c did
Reflects(st, c) ==
  IF c.op = "delete" THEN c.id \notin DOMAIN st.recs[c.coll]
  ELSE /\ c.id \in DOMAIN st.recs[c.coll]
       /\ \A f \in DOMAIN c.values :
            /\ Has(st.recs[c.coll][c.id], f)
            /\ st.recs[c.coll][c.id][f] = c.values[f]

\* the answered mutations of the call
AnsweredMutations ==
  {k \in PerRecord : calls[k].op \in {"update", "delete"} /\ Answered(k)}

\* C12: when one of the per-record store calls of updateMany or deleteMany
\* rejects, the verb rejects with the error of that call, and what the
\* answered per-record calls did stays in the store: every call of the verb
\* is a read, or the verb's own update or delete of a record it found.
C12_BatchRejectsAndKeepsMutations ==
  (Done(BatchVerbs) /\ PerRecordCallRejected)
    => /\ ~result.ok
       /\ result.val = StoreError(call.args.failAt)
       /\ \A k \in AnsweredMutations : Reflects(store, calls[k])
       /\ \A k \in 1..Len(calls) :
            /\ calls[k].op \in {"query", "fetch", "fetchById"}
                 \cup (IF call.verb = "updateMany" THEN {"update"} ELSE {"delete"})
            /\ calls[k].op = "update" =>
                 calls[k].values =
                   transformInput(config, call.args.update, call.args.model, "update", now)
            /\ calls[k].op \in {"update", "delete"} =>
                 calls[k].id \in DOMAIN pre.recs[calls[k].coll]

\* a per-record call rejected after another record had been mutated
C12_Witness ==
  /\ Done(BatchVerbs)
  /\ PerRecordCallRejected
  /\ \E k \in AnsweredMutations : \A j \in FailedCalls : k < j
  /\ store # pre
  /\ inflight = <<>>

----------------------------------------------------------------------------
(* C13 *)

\* C13: when updateMany or deleteMany has settled, by resolving or by
\* rejecting, none of the store calls it made is still running.
C13_BatchSettlesAfterEveryCall ==
  Done(BatchVerbs) => inflight = <<>>

----------------------------------------------------------------------------
(* C14 *)

\* the store calls of the call that rejected: the one the store fails, and
\* an update of an id the collection does not hold
RejectedCalls ==
  FailedCalls \cup
    {k \in 1..Len(calls) :
       /\ calls[k].op = "update"
       /\ calls[k].id \notin DOMAIN pre.recs[calls[k].coll]}

\* the k-th call with its number taken off
Unnumbered(k) == [calls[k] EXCEPT !.io = 0]

\* the verb rejects with the error of the store call that rejected
PropagatesVerbatim ==
  \A k \in RejectedCalls : ~result.ok /\ result.val = StoreError(calls[k].io)

\* the call that rejected is not issued again
NeverReissued ==
  \A k \in RejectedCalls :
    \A j \in (k + 1)..Len(calls) : Unnumbered(j) # Unnumbered(k)

\* no store call is started once the promise has settled
NoCallAfterRejection == Len(calls) = issued

\* C14: when a store call of a verb call rejects, the verb call rejects with
\* that same error, the call is not issued again, and no store call is
\* started after the rejection.
C14_SingleAttemptVerbatim ==
  (pc = "done" /\ RejectedCalls # {})
    => PropagatesVerbatim /\ NeverReissued /\ NoCallAfterRejection

----------------------------------------------------------------------------
(* C15 *)

\* a handler function has run with a filter and no id
HandlerDone(action) ==
  /\ pc = "done"
  /\ call.verb = "handler"
  /\ call.action = action
  /\ call.args.id = 0

\* the reads by query of the call, and its calls of one kind
Finds == {k \in 1..Len(calls) : calls[k].op \in {"fetch", "fetchOne"}}
CallsOf(op) == {k \in 1..Len(calls) : calls[k].op = op}

\* every record but the one under id is what it was before the call
OthersUntouched(coll, id) ==
  /\ DOMAIN store.recs[coll] \ {id} = DOMAIN pre.recs[coll] \ {id}
  /\ \A i \in DOMAIN store.recs[coll] \ {id} : store.recs[coll][i] = pre.recs[coll][i]
  /\ \A c \in Colls \ {coll} : store.recs[c] = pre.recs[c]

\* C15: update by filter, when the store fails no call: with no match it
\* returns null and makes no update call, so the store is unchanged; with a
\* match it makes exactly one update call, for the id of the first record
\* the find returned, then fetches that id and returns the fetched record,
\* and no other record is modified.
C15_UpdateByFilterOneRecord ==
  ((Done({"update"}) \/ HandlerDone("update")) /\ RejectedCalls = {})
    => /\ result.ok
       /\ Cardinality(Finds) = 1
       /\ \A k \in Finds :
            IF Len(FetchedBy(k)) = 0
            THEN /\ result.val = Null
                 /\ CallsOf("update") = {}
                 /\ store = pre
            ELSE \A first \in {FetchedBy(k)[1].id}, coll \in {calls[k].coll} :
                   /\ Cardinality(CallsOf("update")) = 1
                   /\ \A u \in CallsOf("update") :
                        /\ calls[u].id = first
                        /\ calls[u].coll = coll
                        /\ u > k
                        /\ \E g \in CallsOf("fetchById") :
                             g > u /\ calls[g].id = first /\ calls[g].coll = coll
                   /\ Cardinality(CallsOf("fetchById")) = 1
                   /\ result.val \in {Rec(store.recs[coll][first]),
                                      transformOutput(Rec(store.recs[coll][first]), "user")}
                   /\ OthersUntouched(coll, first)

----------------------------------------------------------------------------
(* C16 *)

\* the ids of the records the k-th call read
IdsOf(k) == {FetchedBy(k)[j].id : j \in 1..Len(FetchedBy(k))}

\* C16: updateMany, when the store fails no call: exactly one update call is
\* made for each record the filters matched and for no other record, and
\* the returned list holds one post-update record per matched record, each
\* carrying the values of the patch.
C16_UpdateManyUpdatesEachMatch ==
  (Done({"updateMany"}) /\ RejectedCalls = {})
    => /\ result.ok
       /\ Cardinality(Finds) = 1
       /\ \A k \in Finds :
            /\ {calls[u].id : u \in CallsOf("update")} = IdsOf(k)
            /\ Cardinality(CallsOf("update")) = Cardinality(IdsOf(k))
            /\ result.val.t = "list"
            /\ Len(result.val.l) = Cardinality(IdsOf(k))
            /\ \A j \in 1..Len(result.val.l) :
                 /\ result.val.l[j].t = "rec"
                 /\ Has(result.val.l[j].r, "id")
                 /\ result.val.l[j].r.id \in IdsOf(k)
                 /\ result.val.l[j].r.name = call.args.update.name
                 /\ \A i \in 1..Len(result.val.l) :
                      i # j => result.val.l[i] # result.val.l[j]

----------------------------------------------------------------------------
(* C17 *)

\* the calls to the store of the call, in order, client.query left out
StoreCalls == SelectSeq(calls, LAMBDA c : c.io # 0)

\* what create forwards to the store
Forwarded ==
  IF call.verb = "handler" THEN call.args.values
  ELSE transformInput(config, call.args.data, call.args.model, "create", now)

\* C17: create, when the store fails no call, makes exactly one insert, with
\* the transformed values, and then one fetchById of the id the insert
\* returned, and returns the record that fetch gave.
C17_CreateInsertsThenFetches ==
  ((Done({"create"}) \/ HandlerDone("insert")) /\ RejectedCalls = {})
    => /\ result.ok
       /\ Len(StoreCalls) = 2
       /\ StoreCalls[1].op = "insert"
       /\ StoreCalls[1].values = Forwarded
       /\ StoreCalls[2].op = "fetchById"
       /\ StoreCalls[2].id = pre.nextId
       /\ StoreCalls[2].coll = StoreCalls[1].coll
       /\ \A fetched \in {store.recs[StoreCalls[1].coll][pre.nextId]} :
            /\ result.val.t = "rec"
            /\ \A f \in DOMAIN result.val.r :
                 /\ Has(fetched, f)
                 /\ result.val.r[f] \in
                      {fetched[f], transformOutput(Rec(fetched), "user").r[f]}

----------------------------------------------------------------------------
(* C18 *)

\* the findMany that has run, run again on the same store with offset 0
WithoutOffset ==
  Verb(adapter, transform, config, Ctx(pre, now, call.args), "findMany",
       [call.args EXCEPT !.offset = 0])

\* C18: findMany ignores offset: the call returns what the same call with
\* offset 0 returns on the same store, and makes the same store calls.
C18_FindManyIgnoresOffset ==
  Done({"findMany"})
    => \A other \in {WithoutOffset} :
         /\ other.ok = result.ok
         /\ other.val = result.val
         /\ other.ctx.calls = calls

----------------------------------------------------------------------------
(* C19 *)

\* a delete by filter, single form, has run
DeletedByFilter ==
  Done({"delete"}) \/ (HandlerDone("delete") /\ ~call.args.deleteAll)

\* the ids the call removed from a collection
Removed(coll) == (DOMAIN pre.recs[coll]) \ (DOMAIN store.recs[coll])

\* C19: delete by filter removes at most one record.  When the store fails
\* no call: with a match exactly one delete call is made, for the first
\* record the fetch returned, and every other record stays as it was; with
\* no match no delete call is made; the adapter's delete resolves with no
\* value either way.
C19_DeleteByFilterOneRecord ==
  DeletedByFilter
    => /\ \A c \in Colls : Cardinality(Removed(c)) <= 1
       /\ Cardinality(UNION {Removed(c) : c \in Colls}) <= 1
       /\ RejectedCalls = {} =>
            /\ result.ok
            /\ call.verb = "delete" => result.val = Undef
            /\ Cardinality(Finds) = 1
            /\ \A k \in Finds :
                 IF Len(FetchedBy(k)) = 0
                 THEN CallsOf("delete") = {} /\ store = pre
                 ELSE \A first \in {FetchedBy(k)[1].id}, coll \in {calls[k].coll} :
                        /\ Cardinality(CallsOf("delete")) = 1
                        /\ \A d \in CallsOf("delete") :
                             /\ calls[d].id = first
                             /\ calls[d].coll = coll
                             /\ d > k
                        /\ Removed(coll) = {first}
                        /\ OthersUntouched(coll, first)

\* a delete by filter ran on two matching records and removed the first
C19_Witness ==
  /\ DeletedByFilter
  /\ result.ok
  /\ CallsOf("delete") # {}
  /\ \E k \in Finds : Len(FetchedBy(k)) = 2
  /\ store # pre

----------------------------------------------------------------------------
(* C20 *)

Stamps == {"createdAt", "updatedAt"}

\* create forwards a supplied stamp as it is and sets an absent one to the
\* reading of the clock
CreateStamps ==
  \A k \in CallsOf("insert"), f \in Stamps :
    /\ Has(calls[k].values, f)
    /\ calls[k].values[f] =
         IF Has(call.args.data, f) THEN call.args.data[f] ELSE Date(now)

\* update neither adds createdAt to the patch nor changes it
UpdateKeepsCreatedAt ==
  \A k \in CallsOf("update") :
    /\ Has(calls[k].values, "createdAt") <=> Has(call.args.update, "createdAt")
    /\ Has(call.args.update, "createdAt") =>
         calls[k].values.createdAt = call.args.update.createdAt

\* C20: on create a createdAt or updatedAt the caller supplied reaches the
\* store unchanged and each absent one is set to the current time; on update
\* createdAt is neither added nor modified.
C20_CreateStampsOnlyAbsent ==
  /\ Done({"create"}) => CreateStamps
  /\ Done({"update", "updateMany"}) => UpdateKeepsCreatedAt


----------------------------------------------------------------------------
(* C21 *)

\* the functions the configuration holds for a field of a model
TransformersOf(model, field) ==
  IF Has(config, "field_options") /\ Has(config.field_options.transformers, model)
  THEN {e.fn : e \in {x \in {config.field_options.transformers[model][k] :
                                k \in 1..Len(config.field_options.transformers[model])} :
                        x.field = field}}
  ELSE {}

\* the id transform the configuration holds, and the field it is for
IdTransforms ==
  IF Has(config, "id_options") /\ Has(config.id_options, "transform")
  THEN {config.id_options.transform} ELSE {}
IdFieldName ==
  IF Has(config, "id_options") /\ Has(config.id_options, "field_name")
     /\ config.id_options.field_name # ""
  THEN config.id_options.field_name ELSE "id"

\* the payload carries the field: it holds a value that is not undefined
Carries(data, field) == Has(data, field) /\ data[field] # Undefined

\* the value of a field once the transformer of the payload's model, if the
\* field has one, was applied once
AfterTransformer(data, model, field) ==
  IF Carries(data, field) /\ TransformersOf(model, field) # {}
  THEN Apply(Only(TransformersOf(model, field)), data[field])
  ELSE data[field]

\* the value that is to reach the store: the id transform applied on top
\* when one is configured and the id field holds a non-empty value
ToStore(data, model, field) ==
  IF /\ field = IdFieldName
     /\ IdTransforms # {}
     /\ AfterTransformer(data, model, field) \notin {Undefined, NullValue, ""}
  THEN Apply(Only(IdTransforms), AfterTransformer(data, model, field))
  ELSE AfterTransformer(data, model, field)

\* C21: the reshaped payload holds the fields of the payload and the stamps;
\* a field that the payload carries and that has a transformer under the
\* payload's model holds the transformer's value of it, applied once;
\* transformers of other models are not applied; the id field holds the id
\* transform's value of what the transformers left when a transform is
\* configured and that value is non-empty; every other field is unchanged.
C21_TransformersAppliedOnce ==
  Done({"transformInput"})
    => /\ (DOMAIN result.val.r) \ Stamps = DOMAIN call.args.data
       /\ \A f \in DOMAIN call.args.data :
            result.val.r[f] = ToStore(call.args.data, call.args.model, f)

\* a payload whose id went through a field transformer and the id transform,
\* under a configuration that also holds transformers of another model
C21_Witness ==
  /\ Done({"transformInput"})
  /\ Has(call.args.data, "id")
  /\ TransformersOf(call.args.model, "id") = {"pad"}
  /\ IdTransforms # {}
  /\ IdFieldName = "id"
  /\ result.val.r.id = "hash(pad(A))"
  /\ Has(call.args.data, "uid")
  /\ result.val.r.uid = "pad(A)"

----------------------------------------------------------------------------
(* C22 *)

\* the caller's list as the call left it, and the list the verb went on with
CallerWhere == Deref(call.objects, 1)
VerbWhere == Deref(call.objects, call.objects.bound)

\* the processed list of the linked adapter copy, by value
ProcessedWhere ==
  IF adapter = A1 THEN processWhere_A1(transform, call.args.where)
  ELSE IF adapter = A2 THEN processWhere_A2(transform, call.args.where)
  ELSE processWhere_A3(transform, call.args.where)

\* C22: after a filter-taking verb call, resolved or rejected, the caller's
\* filter list has the length and order it had and every condition in it
\* has the field, operator, value and connector it had, an omitted operator
\* still omitted; the list the verb goes on with is another array, holding
\* the mapped conditions.
C22_FilterListUntouched ==
  Done(FilterVerbs)
    => /\ Len(CallerWhere) = Len(call.args.where)
       /\ \A k \in 1..Len(CallerWhere) : CallerWhere[k] = call.args.where[k]
       /\ IF call.objects.thrown THEN ProcessedWhere.t = "err"
          ELSE /\ call.objects.bound # 1
               /\ ProcessedWhere = List(VerbWhere)

\* a call whose condition came without an operator and went to the store
\* with the operator the mapping wrote
C22_Witness ==
  /\ Done(FilterVerbs)
  /\ result.ok
  /\ Len(call.args.where) = 1
  /\ call.args.where[1].operator = Undefined
  /\ VerbWhere[1].operator = "="
  /\ \E k \in 1..Len(calls) : Len(calls[k].where) = 1

----------------------------------------------------------------------------
(* C23 *)

\* what a condition's connector may be
Connectors == {"AND", "OR", Undefined}

\* the filter list with other connectors
Reconnected(where, cs) ==
  [k \in 1..Len(where) |-> [where[k] EXCEPT !.connector = cs[k]]]

\* the verb call that has run, run on the same store with another filter list
SameCallWith(where) ==
  Verb(adapter, transform, config, Ctx(pre, now, call.args), call.verb,
       [call.args EXCEPT !.where = where])

----------------------------------------------------------------------------
(* C24 *)

\* the operators a caller writes that the mapping renames, and their names
\* in the store
Renamed == {"==", "not_in"}
StoreName(op) == IF op = "==" THEN "=" ELSE "not in"

\* C24: a condition written with "==" or "not_in" is accepted by every
\* filter-taking verb, not rejected as unsupported, and reaches the store
\* as "=" or "not in": the operators are mapped before they are validated.
C24_MappedBeforeValidated ==
  (/\ Done(FilterVerbs)
   /\ Len(call.args.where) = 1
   /\ call.args.where[1].operator \in Renamed)
    => /\ ~Rejected
       /\ Filtered # {}
       /\ \A k \in Filtered :
            calls[k].where =
              <<<<call.args.where[1].field, StoreName(call.args.where[1].operator),
                  call.args.where[1].value>>>>

----------------------------------------------------------------------------
(* C25 *)

\* the actions the handler's dispatcher and the db helper accept
HandlerActions == {"query", "insert", "update", "delete", "count"}
DbHelperActions == {"insert", "queryOne", "query", "update", "delete", "count"}

\* a request went to the handler or to db with an action it does not accept
UnacceptedAction ==
  /\ pc = "done"
  /\ \/ call.verb = "handler" /\ call.action \notin HandlerActions
     \/ call.verb = "db" /\ call.action \notin DbHelperActions

\* C25: a request with an action that is not one of the accepted actions is
\* rejected with the error "Unsupported action" that names the action, and
\* no call is made on the store for it.
C25_UnsupportedActionRejected ==
  UnacceptedAction
    => /\ ~result.ok
       /\ result.val.name = "Unsupported action"
       /\ result.val.op = call.action
       /\ calls = <<>>
       /\ store = pre

\* the handler was asked for queryOne, which db accepts and it does not, on
\* a store that holds a record
C25_Witness ==
  /\ UnacceptedAction
  /\ call.verb = "handler"
  /\ call.action = "queryOne"
  /\ ~result.ok
  /\ pre.recs["user"] # EmptyRec

----------------------------------------------------------------------------
(* C26 *)

\* record r satisfies every condition of a plain filter list
Satisfies(r, where) ==
  \A k \in 1..Len(where) :
    Sat(r, <<where[k].field, where[k].operator, where[k].value>>)

\* C26: every record an update by filter mutates satisfies the filters of
\* the call at the moment the mutation is applied, also when calls of other
\* callers run between its find and its update by id.
C26_UpdateOnlyMatchingRecord ==
  \A p \in Callers :
    (procs[p].pc # "idle" /\ procs[p].verb = "update")
      => \A k \in 1..Len(procs[p].mutated) :
           Satisfies(procs[p].mutated[k].rec, procs[p].args.where)

----------------------------------------------------------------------------
(* C27 *)

\* the deleteMany calls that have resolved
Resolved == {p \in Callers : procs[p].pc = "done" /\ procs[p].verb = "deleteMany"
                               /\ procs[p].ok}

\* C27: the count a deleteMany returns is the number of records that call
\* removed from the store, also when two deleteMany calls with overlapping
\* filters run concurrently: their counts add up to the number of records
\* removed.
C27_DeleteManyCountsRemoved ==
  /\ \A p \in Resolved : procs[p].val = Num(procs[p].removed)
  /\ Resolved = Callers
       => procs[1].val.n + procs[2].val.n = procs[1].removed + procs[2].removed

----------------------------------------------------------------------------
(* C28 *)

\* The limit a findMany was given.  `if (limit)` takes the number 0 as it
\* takes an omitted limit, so the arguments hold 0 for both.
GivenLimit == call.args.limit

\* C28: a findMany that was given the limit n, 0 included, returns at most
\* n records.
C28_FindManyAtMostLimit ==
  (Done({"findMany"}) /\ result.ok) => Len(result.val.l) <= GivenLimit

----------------------------------------------------------------------------
(* C29 *)

\* C29: a simple condition built by a comparison method of the builder
\* converts to the triple of its field, an operator of the store's set, and
\* its value.
C29_BuilderOperatorsSupported ==
  (Done({"queryBuilder"}) /\ call.args.built \in SimpleConditions)
    => /\ result.val.t = "triple"
       /\ result.val.operator \in StoreOperators
       /\ result.val.field = call.args.built.field
       /\ result.val.value = call.args.built.value

----------------------------------------------------------------------------
(* C30 *)

\* a triple, or a group of triples
TripleOrGroup(x) ==
  \/ x.t = "triple"
  \/ /\ x.t \in {"array", "or"}
     /\ \A k \in 1..Len(x.filters) : x.filters[k].t = "triple"

\* C30: the function queryBuilder returns for an and/or tree hands to Where
\* only triples or groups of triples, never an operand that is itself a
\* function still to be called.
C30_WhereGetsTriplesOnly ==
  Done({"queryBuilder"})
    => \A k \in 1..Len(calls) :
         /\ calls[k].handed.t \in {"array", "or"}
         /\ \A j \in 1..Len(calls[k].handed.filters) :
              TripleOrGroup(calls[k].handed.filters[j])

====
